---- MODULE Spec2Model ----
(***************************************************************************)
(* A model of the very-simple-coding-agent: the REPL (repl.py), the ReAct  *)
(* turn loop (loop.py), the tool executor with its approval gate           *)
(* (tools/executor.py), the conversation History (memory.py) and the       *)
(* streaming response assembler (providers/openrouter.py).                 *)
(***************************************************************************)
EXTENDS Integers, Sequences, FiniteSets, TLC

VARIABLES
    pc,             \* position of the single session task (see Positions)
    messages,       \* History._messages
    usage,          \* History._usage
    iteration,      \* run_turn: the loop variable of `for iteration in range(...)`
    response,       \* run_turn: response_message of the current iteration
    tc_i,           \* run_turn: 1-based index of the tool call being executed
    turn_result,    \* what the REPL last reported: how run_turn or /compact ended
    requests,       \* number of stream_completion calls issued by the current turn
    log,            \* what the executor did in the current ACT phase, in order (see Ev*)
    files,          \* paths that exist in the working directory
    summarize_calls,\* provider.summarize calls made by the latest History.compact
    varied,         \* number of non-default environment events so far
    asm,            \* stream_completion: accumulators of the response assembler
    stream,         \* stream_completion: the chunks still to arrive
    ua,             \* usage checks: the usages drawn and where they were recorded; the ceiling
    heap,           \* Message objects, and the lists of references History and a caller hold
    registry,       \* tools/registry.py: TOOL_REGISTRY while tools are being registered
    proc,           \* execute_command: the call, its shell process and the command's process
    obs             \* the session's dealings with its surroundings (see SessionInit)

vars == <<pc, messages, usage, iteration, response, tc_i, turn_result, requests,
          log, files, summarize_calls, varied, asm, stream, ua, heap, registry, proc, obs>>

turnVars == <<pc, messages, usage, iteration, response, tc_i, turn_result, requests,
              log, files, summarize_calls, varied>>

-----------------------------------------------------------------------------
(* Bounds of the model *)

\* a new turn starts only while the history holds at most this many messages
MaxHistory == 2
\* non-default environment events (varied response, failure, interrupt) per session
MaxVaried == 1
\* longest answer typed at the approval prompt
MaxAnswerLen == 3
\* longest text or argument fragment one delta carries
MaxFrag == 2
\* nesting depth at which the JSON decoder raises RecursionError (scaled down
\* from the interpreter's recursion limit)
RecursionLimit == 2
\* largest counter of a usage drawn for the usage algebra
MaxTokens == 2
\* number of Message objects that may be allocated
MaxObjects == 3
\* number of register_tool calls made while the registry is populated
MaxRegistrations == 3
\* number of chunks delivered when deltas are followed one at a time
MaxDeltas == 3
\* largest max_history_tokens a History is constructed with for the limit check
MaxCeiling == 3

(* Program constants *)

_MAX_ITERATIONS == 20

\* models.py:126, the default of Config.max_history_tokens
DEFAULT_MAX_HISTORY_TOKENS == 80000

-----------------------------------------------------------------------------
(* models.py *)

USER == "user"
ASSISTANT == "assistant"
TOOL == "tool"

SAFE == "safe"
REQUIRES_APPROVAL == "requires_approval"

None == "<None>"

\* JSON values as json.loads produces them: a dict is a sequence of key/value
\* members (unique keys, insertion order), a scalar carries its text.
JStr(s) == [t |-> "str", s |-> s, items |-> <<>>]
JNum(s) == [t |-> "num", s |-> s, items |-> <<>>]
JDict(items) == [t |-> "dict", s |-> "", items |-> items]
Member(k, v) == [k |-> k, v |-> v]

ToolCall(id, name, arguments) == [id |-> id, name |-> name, arguments |-> arguments]

Message(role, content, tool_call_id, tool_calls) ==
    [role |-> role, content |-> content, tool_call_id |-> tool_call_id,
     tool_calls |-> tool_calls]

ToolResult(tool_call_id, name, output, is_error) ==
    [tool_call_id |-> tool_call_id, name |-> name, output |-> output,
     is_error |-> is_error]

Usage(input_tokens, output_tokens) ==
    [input_tokens |-> input_tokens, output_tokens |-> output_tokens]

total(u) == u.input_tokens + u.output_tokens

-----------------------------------------------------------------------------
(* Text: console lines are sequences of characters *)

Space == " "

\* str.lower() on one character
LowerChar(c) ==
    CASE c = "Y" -> "y"
      [] c = "Q" -> "q"
      [] c = "C" -> "c"
      [] OTHER -> c

lower(s) == [i \in 1..Len(s) |-> LowerChar(s[i])]

RECURSIVE lstrip(_)
lstrip(s) == IF s # <<>> /\ Head(s) = Space THEN lstrip(Tail(s)) ELSE s

RECURSIVE rstrip(_)
rstrip(s) ==
    IF s # <<>> /\ s[Len(s)] = Space THEN rstrip(SubSeq(s, 1, Len(s) - 1)) ELSE s

\* str.strip()
strip(s) == rstrip(lstrip(s))

\* the Python string a sequence of characters spells
RECURSIVE Str(_)
Str(s) == IF s = <<>> THEN "" ELSE Head(s) \o Str(Tail(s))

RECURSIVE SeqsUpTo(_, _)
SeqsUpTo(S, n) ==
    IF n = 0 THEN {<<>>}
    ELSE LET shorter == SeqsUpTo(S, n - 1)
         IN  shorter \cup {Append(q, c) : q \in shorter, c \in S}

-----------------------------------------------------------------------------
(* tools/registry.py and the tool modules *)

ToolEntry(safety, params, required) ==
    [safety |-> safety, params |-> params, required |-> required]

\* TOOL_REGISTRY after `import agent.tools`: name -> (definition.safety, the
\* implementation's parameter names, those without a default)
TOOL_REGISTRY ==
    [n \in {"read_file", "write_file", "list_directory", "search_files",
            "execute_command", "think"} |->
        CASE n = "read_file" -> ToolEntry(SAFE, {"path"}, {"path"})
          [] n = "write_file" ->
                ToolEntry(REQUIRES_APPROVAL, {"path", "content"}, {"path", "content"})
          [] n = "list_directory" -> ToolEntry(SAFE, {"path"}, {})
          [] n = "search_files" ->
                ToolEntry(SAFE, {"glob_pattern", "directory", "content_pattern"},
                          {"glob_pattern"})
          [] n = "execute_command" ->
                ToolEntry(REQUIRES_APPROVAL, {"command", "timeout"}, {"command"})
          [] n = "think" -> ToolEntry(SAFE, {"thought"}, {"thought"})]

IsMapping(arguments) == arguments.t = "dict"

Keys(arguments) == {arguments.items[i].k : i \in 1..Len(arguments.items)}

Get(arguments, key) ==
    LET i == CHOOSE j \in 1..Len(arguments.items) : arguments.items[j].k = key
    IN  arguments.items[i].v

\* fn(**arguments): Python binds the keywords before the coroutine runs and raises
\* TypeError for a non-mapping, an unexpected keyword or a missing parameter.
BindsOk(entry, arguments) ==
    /\ IsMapping(arguments)
    /\ Keys(arguments) \subseteq entry.params
    /\ entry.required \subseteq Keys(arguments)

\* How one run of a tool implementation can go, besides returning normally:
\* "oserror" is an OSError the implementation turns into "Error..." text,
\* "exception" is an exception the implementation does not catch.
ToolEnv(name) ==
    IF name = "think" THEN {"ok"} ELSE {"ok", "oserror", "exception"}

\* The implementation's outcome on bound arguments: what it raises or returns.
ToolFn(name, arguments, env, fs) ==
    CASE name = "think" ->
            \* think.py:42-43 slices the thought, then returns it unchanged
            IF Get(arguments, "thought").t = "str"
            THEN [raised |-> "", output |-> Get(arguments, "thought").s]
            ELSE [raised |-> "TypeError", output |-> ""]
      [] name = "write_file" ->
            IF Get(arguments, "path").t # "str" \/ Get(arguments, "content").t # "str"
            THEN [raised |-> "TypeError", output |-> ""]
            ELSE IF env = "ok"
            THEN [raised |-> "",
                  output |-> "Successfully wrote to " \o Get(arguments, "path").s]
            ELSE IF env = "oserror"
            THEN [raised |-> "", output |-> "Error writing file"]
            ELSE [raised |-> "Exception", output |-> ""]
      [] name = "read_file" ->
            IF Get(arguments, "path").t # "str"
            THEN [raised |-> "TypeError", output |-> ""]
            ELSE IF env = "ok"
            THEN [raised |-> "",
                  output |-> IF Get(arguments, "path").s \in fs
                             THEN "content of " \o Get(arguments, "path").s
                             ELSE "Error: file not found: " \o Get(arguments, "path").s]
            ELSE IF env = "oserror"
            THEN [raised |-> "", output |-> "Error reading file"]
            ELSE [raised |-> "Exception", output |-> ""]
      [] OTHER ->
            IF env = "ok" THEN [raised |-> "", output |-> "(output of " \o name \o ")"]
            ELSE IF env = "oserror"
            THEN [raised |-> "", output |-> "Error: " \o name \o " failed"]
            ELSE [raised |-> "Exception", output |-> ""]

\* write_file.py:50: the only change a tool makes to the working directory
ToolEffect(name, arguments, env, fs) ==
    IF /\ name = "write_file"
       /\ env = "ok"
       /\ Get(arguments, "path").t = "str"
       /\ Get(arguments, "content").t = "str"
    THEN fs \cup {Get(arguments, "path").s}
    ELSE fs

-----------------------------------------------------------------------------
(* memory.py: History *)

\* History.append
append(msgs, message) == Append(msgs, message)

\* a slip: the counters are replaced by the latest completion's
record_usage_latest(acc, u) == Usage(u.input_tokens, u.output_tokens)

\* a slip: the completion's usage is recorded when it arrives and again with the message
record_usage_twice(acc, u) ==
    Usage(acc.input_tokens + 2 * u.input_tokens, acc.output_tokens + 2 * u.output_tokens)

\* History.record_usage
record_usage(acc, u) ==
    Usage(acc.input_tokens + u.input_tokens, acc.output_tokens + u.output_tokens)

\* a slip: reaching the ceiling already counts as over
is_over_limit_inclusive(u, max_history_tokens) == total(u) >= max_history_tokens

\* History.is_over_limit
is_over_limit(u, max_history_tokens) == total(u) > max_history_tokens

\* a slip: the summary is appended to the history instead of replacing it
CompactedMessages_appended(summary) ==
    Append(messages, Message(ASSISTANT, "[Conversation summary]\n" \o summary, None, <<>>))

\* History.compact, after provider.summarize returned `summary`
CompactedMessages(summary) ==
    <<Message(ASSISTANT, "[Conversation summary]\n" \o summary, None, <<>>)>>

-----------------------------------------------------------------------------
(* tools/executor.py: ToolExecutor *)

UnknownTool(name) == name \notin DOMAIN TOOL_REGISTRY

\* a slip: the error text does not name the tool
UnknownToolResult_anonymous(tool_call) ==
    ToolResult(tool_call.id, tool_call.name, "Error: unknown tool.", TRUE)

\* execute, lines 30-38
UnknownToolResult(tool_call) ==
    ToolResult(tool_call.id, tool_call.name,
               "Error: unknown tool '" \o tool_call.name \o "'.", TRUE)

\* a slip: the gate compares with the wrong safety level
NeedsApproval_inverted(tool_call) ==
    TOOL_REGISTRY[tool_call.name].safety = SAFE

\* execute, lines 40-48
NeedsApproval(tool_call) ==
    TOOL_REGISTRY[tool_call.name].safety = REQUIRES_APPROVAL

\* a slip: the denial is reported under the tool's name in place of the call's id
DeniedResult_misfiled(tool_call) ==
    ToolResult(tool_call.name, tool_call.name, "Tool execution denied by user.", TRUE)

\* execute, lines 42-48
DeniedResult(tool_call) ==
    ToolResult(tool_call.id, tool_call.name, "Tool execution denied by user.", TRUE)

\* _request_approval, lines 61-63: tool_call.arguments.items() exists only on a dict
ArgsDisplayRaises(tool_call) == ~IsMapping(tool_call.arguments)

\* a slip: the comparison forgets str.lower()
Approved_cased(answer) == Str(strip(answer)) = "y"

\* _request_approval, line 72
Approved(answer) == Str(lower(strip(answer))) = "y"

\* _run_tool: the ToolResult for each way fn(**arguments) can end
_run_tool(tool_call, env, fs) ==
    LET entry == TOOL_REGISTRY[tool_call.name]
        out == IF BindsOk(entry, tool_call.arguments)
               THEN ToolFn(tool_call.name, tool_call.arguments, env, fs)
               ELSE [raised |-> "TypeError", output |-> ""]
    IN  CASE out.raised = "" ->
                ToolResult(tool_call.id, tool_call.name, out.output, FALSE)
          [] out.raised = "TypeError" ->
                ToolResult(tool_call.id, tool_call.name,
                           "Error: invalid arguments for tool '" \o tool_call.name \o "'",
                           TRUE)
          [] OTHER ->
                ToolResult(tool_call.id, tool_call.name,
                           "Error: unexpected error in tool '" \o tool_call.name \o "'",
                           TRUE)

\* whether fn's body started running (the keywords bound)
ImplInvoked(tool_call) ==
    BindsOk(TOOL_REGISTRY[tool_call.name], tool_call.arguments)

-----------------------------------------------------------------------------
(* The environment: what the provider, the user and the tools may do *)

Dict1(k, v) == JDict(<<Member(k, JStr(v))>>)

\* the response the provider gives by default: one think call
DefaultResponse ==
    [message |-> Message(ASSISTANT, "", None,
                         <<ToolCall("tc-1", "think", Dict1("thought", "hmm"))>>),
     usage |-> Usage(20, 10)]

\* a response without tool calls
TextResponse ==
    [message |-> Message(ASSISTANT, "Done.", None, <<>>), usage |-> Usage(10, 5)]

WriteArgs == JDict(<<Member("path", JStr("f")), Member("content", JStr("x"))>>)

\* the other tool-call lists a response may carry
VariedToolCalls ==
    { <<ToolCall("tc-1", "think", Dict1("thought", "a")),
        ToolCall("tc-2", "think", Dict1("thought", "b"))>>,
      <<ToolCall("tc-1", "list_directory", Dict1("path", "."))>>,
      <<ToolCall("tc-1", "write_file", WriteArgs)>>,
      <<ToolCall("tc-1", "write_file", WriteArgs),
        ToolCall("tc-2", "read_file", Dict1("path", "f"))>>,
      <<ToolCall("tc-1", "nonexistent_tool", JDict(<<>>)),
        ToolCall("tc-2", "think", Dict1("thought", "b"))>>,
      <<ToolCall("x", "read_file", Dict1("wrong_arg", "value"))>>,
      <<ToolCall("tc-1", "execute_command", JNum("1"))>>,
      <<ToolCall("tc-1", "think", JDict(<<Member("thought", JNum("1"))>>))>>,
      <<ToolCall("", "think", Dict1("thought", "a"))>> }

VariedResponses ==
    {[message |-> Message(ASSISTANT, "", None, tcs), usage |-> Usage(30, 15)] :
        tcs \in VariedToolCalls}
    \cup {[message |-> Message(ASSISTANT, "", None, <<>>), usage |-> Usage(0, 0)]}

AnswerChars == {"y", "Y", Space}

\* what input() can return at the approval prompt
Answers == SeqsUpTo(AnswerChars, MaxAnswerLen) \cup {<<"n">>, <<"y", "e", "s">>}

\* the lines the user may type at the REPL prompt
UserLines ==
    { <<"h", "i">>, <<Space, "h", "i", Space>>, <<>>, <<Space>>,
      <<"/", "q", "u", "i", "t">>, <<"/", "Q", "u", "i", "t">>,
      <<Space, "q", "u", "i", "t">>,
      <<"/", "c", "o", "m", "p", "a", "c", "t">>,
      <<"/", "C", "o", "m", "p", "a", "c", "t", Space>> }

QuitCommands == {"/quit", "/exit", "quit", "exit"}

\* Console markup: a text is a sequence of plain runs and tags
Plain(text) == [kind |-> "text", name |-> text]
OpenTag(name) == [kind |-> "open", name |-> name]
CloseTag(name) == [kind |-> "close", name |-> name]

\* the style stack without its topmost entry of the given name
RECURSIVE pop_style(_, _)
pop_style(stack, name) ==
    IF stack[Len(stack)] = name THEN SubSeq(stack, 1, Len(stack) - 1)
    ELSE Append(pop_style(SubSeq(stack, 1, Len(stack) - 1), name), stack[Len(stack)])

\* console.print(markup): whether rendering raises MarkupError, which it does
\* for a closing tag that matches no open tag
RECURSIVE RenderRaises(_, _)
RenderRaises(markup, stack) ==
    IF markup = <<>> THEN FALSE
    ELSE LET tag == Head(markup)
         IN  CASE tag.kind = "text" -> RenderRaises(Tail(markup), stack)
               [] tag.kind = "open" -> RenderRaises(Tail(markup), Append(stack, tag.name))
               [] OTHER ->
                    IF \E i \in 1..Len(stack) : stack[i] = tag.name
                    THEN RenderRaises(Tail(markup), pop_style(stack, tag.name))
                    ELSE TRUE

\* console.print(f"[red]{prefix}{exc}[/red]") of repl.py:88 and repl.py:116
ReportRaises(prefix, exc) ==
    RenderRaises(<<OpenTag("red"), Plain(prefix)>> \o exc \o <<CloseTag("red")>>, <<>>)

\* str(exc) of the exceptions a provider call may raise
ProviderErrors ==
    { <<Plain("Connection error.")>>,
      <<Plain("unexpected token "), CloseTag("INST"), Plain(" in response")>> }

\* str(exc) of the AttributeError of executor.py:61-63 and the EOFError of input()
AttributeErrorText == <<Plain("'int' object has no attribute 'items'")>>
EOFErrorText == <<Plain("EOF when reading a line")>>

Summaries == {"s"}

-----------------------------------------------------------------------------
(* The session: repl.py run_repl, loop.py run_turn, executor.py execute *)

\* Positions of the session task (its suspension points and loop heads):
\*   "read"      repl.py:52      awaiting the next user line
\*   "reason"    loop.py:48      awaiting provider.stream_completion
\*   "act"       loop.py:64-66   about to call execute on tool_calls[tc_i]
\*   "approval"  executor.py:71  awaiting the answer to "Allow? [y/N]"
\*   "tool"      executor.py:91  awaiting fn(**arguments)
\*   "compact"   memory.py:88    awaiting provider.summarize
\*   "exit"                      run_repl has returned
Positions == {"read", "reason", "act", "approval", "tool", "compact", "exit"}

InFlight == pc \in {"reason", "act", "approval", "tool"}

NoResponse == Message(ASSISTANT, "", None, <<>>)

\* The executor's observable steps, as a test double would record them
EvExecute(tool_call) == [e |-> "execute", call |-> tool_call]
EvPrompt(tool_call) == [e |-> "prompt", call |-> tool_call]
EvAnswer(tool_call, answer) == [e |-> "answer", call |-> tool_call, answer |-> answer]
EvInvoke(tool_call) == [e |-> "invoke", call |-> tool_call]
\* provider.summarize(messages, model) as the provider's test double records it
EvSummarize(msgs) == [e |-> "summarize", messages |-> msgs]
EvResult(tool_call, result) == [e |-> "result", call |-> tool_call, result |-> result]

asmIdle == <<>>

\* obs is what the session has passed to and taken from its surroundings:
\*   request   the messages argument of the latest stream_completion call
\*   usage0    History's usage when the latest turn began
\*   returned  the usages returned by the completions of the latest turn
\*   warned    whether the over-limit warning was printed before the latest turn
\*   orphans   approval reads (input() in an executor thread) still blocked on
\*             the console after the turn that started them was left
\*   max_history_tokens   Config.max_history_tokens, given to History
SessionStart(ceiling) ==
    /\ obs = [request |-> <<>>, usage0 |-> Usage(0, 0), returned |-> <<>>,
              warned |-> FALSE, orphans |-> 0, max_history_tokens |-> ceiling]
    /\ pc = "read"
    /\ messages = <<>>
    /\ usage = Usage(0, 0)
    /\ iteration = 0
    /\ response = NoResponse
    /\ tc_i = 0
    /\ turn_result = "none"
    /\ requests = 0
    /\ log = <<>>
    /\ files = {}
    /\ summarize_calls = 0
    /\ varied = 0

SessionInit == SessionStart(DEFAULT_MAX_HISTORY_TOKENS)

\* the variables of the object-level specifications, at rest
AtRest ==
    /\ heap = <<>>
    /\ registry = <<>>
    /\ proc = <<>>

Init ==
    /\ SessionInit
    /\ AtRest
    /\ asm = asmIdle
    /\ stream = <<>>
    /\ ua = <<>>

\* The session is followed while its history is short, and for one more turn
\* after a first turn that ran undisturbed into the iteration cap.
TurnRoom ==
    \/ Len(messages) <= MaxHistory
    \/ (turn_result = "ABORTED" /\ varied = 0 /\ Len(messages) = 2 * _MAX_ITERATIONS + 1)

\* a slip: the request carries the messages of the current turn only
RequestMessages_turn(msgs) ==
    LET users == {i \in 1..Len(msgs) : msgs[i].role = USER}
        start == IF users = {} THEN 1 ELSE CHOOSE i \in users : \A j \in users : j <= i
    IN  SubSeq(msgs, start, Len(msgs))

\* run_turn, line 49: `messages=history.messages`, a copy of the whole list
RequestMessages(msgs) == msgs

\* a slip: a turn begun over the limit first clears the history
StartTurn_cleared(user_input) ==
    /\ TurnRoom
    /\ messages' = append(IF is_over_limit(usage, obs.max_history_tokens)
                          THEN <<>> ELSE messages,
                          Message(USER, user_input, None, <<>>))
    /\ iteration' = 0
    /\ requests' = 1
    /\ pc' = "reason"
    /\ response' = NoResponse
    /\ tc_i' = 0
    /\ turn_result' = "none"
    /\ log' = <<>>
    /\ summarize_calls' = 0
    /\ obs' = [obs EXCEPT !.request = RequestMessages(messages'),
                          !.usage0 = usage,
                          !.returned = <<>>,
                          !.warned = is_over_limit(usage, obs.max_history_tokens)]
    /\ UNCHANGED <<usage, files, varied>>

\* run_turn, lines 41-48: append the user message and issue the first request
\* (obs.warned notes the warning of run_repl, lines 66-70, printed just before)
StartTurn(user_input) ==
    /\ TurnRoom
    /\ messages' = append(messages, Message(USER, user_input, None, <<>>))
    /\ iteration' = 0
    /\ requests' = 1
    /\ pc' = "reason"
    /\ response' = NoResponse
    /\ tc_i' = 0
    /\ turn_result' = "none"
    /\ log' = <<>>
    /\ summarize_calls' = 0
    /\ obs' = [obs EXCEPT !.request = RequestMessages(messages'),
                          !.usage0 = usage,
                          !.returned = <<>>,
                          !.warned = is_over_limit(usage, obs.max_history_tokens)]
    /\ UNCHANGED <<usage, files, varied>>

\* _do_compact -> History.compact, lines 83-88: up to the await of summarize
StartCompact ==
    /\ IF messages = <<>>
       THEN /\ pc' = "read" /\ summarize_calls' = 0 /\ turn_result' = "Compacted"
            /\ log' = <<>>
       ELSE /\ pc' = "compact" /\ summarize_calls' = 1 /\ turn_result' = "none"
            /\ log' = <<EvSummarize(messages)>>
    /\ UNCHANGED <<messages, usage, iteration, response, tc_i, requests,
                   files, varied, obs>>

\* a slip: the commands are compared without str.lower()
Dispatch_cased(line) ==
    LET user_input == strip(line)
    IN  IF user_input = <<>>
        THEN UNCHANGED <<turnVars, obs>>
        ELSE IF Str(user_input) \in QuitCommands
        THEN /\ pc' = "exit"
             /\ UNCHANGED <<messages, usage, iteration, response, tc_i,
                            turn_result, requests, log, files, summarize_calls,
                            varied, obs>>
        ELSE IF Str(user_input) = "/compact"
        THEN StartCompact
        ELSE StartTurn(Str(user_input))

\* run_repl, lines 57-83: what the loop body does with the line it has read
Dispatch(line) ==
    LET user_input == strip(line)
    IN  IF user_input = <<>>
        THEN UNCHANGED <<turnVars, obs>>
        ELSE IF Str(lower(user_input)) \in QuitCommands
        THEN /\ pc' = "exit"
             /\ UNCHANGED <<messages, usage, iteration, response, tc_i,
                            turn_result, requests, log, files, summarize_calls,
                            varied, obs>>
        ELSE IF Str(lower(user_input)) = "/compact"
        THEN StartCompact
        ELSE StartTurn(Str(user_input))

\* a slip: the prompt is read by a task of its own, which also takes lines while
\* a completion stream or the summarizer is awaited
ReadLine_eager ==
    /\ pc \in {"read", "reason", "compact"}
    /\ \E line \in UserLines : Dispatch(line)
    /\ UNCHANGED <<asm, stream, ua, heap, registry, proc>>

\* run_repl, lines 49-83: one line read at the prompt
ReadLine ==
    /\ pc = "read"
    /\ \E line \in UserLines : Dispatch(line)
    /\ UNCHANGED <<asm, stream, ua, heap, registry, proc>>

\* run_repl, lines 51-55: EOFError or KeyboardInterrupt while reading the line
ReadEnd ==
    /\ pc = "read"
    /\ pc' = "exit"
    /\ UNCHANGED <<messages, usage, iteration, response, tc_i, turn_result, requests,
                   log, files, summarize_calls, varied, asm, stream, ua, heap, registry, proc, obs>>

\* the iterations of a turn in which the environment may leave its default course
VariedIterations == {0, _MAX_ITERATIONS - 1}

\* The environment leaves its default course (a varied response, a provider
\* failure, an interrupt) at most MaxVaried times in a session, and only in the
\* first or the last iteration of a turn.  An interrupt at a waiting approval
\* prompt is followed besides.
VariedAllowed ==
    /\ varied < MaxVaried
    /\ iteration \in VariedIterations

\* the responses the provider may return now
ProviderResponses ==
    {DefaultResponse, TextResponse}
    \cup (IF VariedAllowed THEN VariedResponses ELSE {})

\* a slip: the break tests the content instead of the tool calls
TurnComplete_content(response_message) == response_message.content = ""

\* run_turn, line 59: `if not response_message.tool_calls: break`
TurnComplete(response_message) == response_message.tool_calls = <<>>

\* a slip: a response without tool calls is shown but not appended
StreamReturn_unappended ==
    /\ pc = "reason"
    /\ \E r \in ProviderResponses :
        /\ varied' = IF r \in VariedResponses THEN varied + 1 ELSE varied
        /\ usage' = record_usage(usage, r.usage)
        /\ messages' = IF TurnComplete(r.message) THEN messages
                       ELSE append(messages, r.message)
        /\ response' = r.message
        /\ IF TurnComplete(r.message)
           THEN pc' = "read" /\ turn_result' = "DONE" /\ tc_i' = 0
           ELSE pc' = "act" /\ turn_result' = turn_result /\ tc_i' = 1
        /\ obs' = [obs EXCEPT !.returned = Append(@, r.usage)]
    /\ log' = <<>>
    /\ UNCHANGED <<iteration, requests, files, summarize_calls, asm, stream, ua, heap, registry, proc>>

\* run_turn, lines 48-64: stream_completion returned (message, usage)
StreamReturn ==
    /\ pc = "reason"
    /\ \E r \in ProviderResponses :
        /\ varied' = IF r \in VariedResponses THEN varied + 1 ELSE varied
        /\ usage' = record_usage(usage, r.usage)
        /\ messages' = append(messages, r.message)
        /\ response' = r.message
        /\ IF TurnComplete(r.message)
           THEN pc' = "read" /\ turn_result' = "DONE" /\ tc_i' = 0
           ELSE pc' = "act" /\ turn_result' = turn_result /\ tc_i' = 1
        /\ obs' = [obs EXCEPT !.returned = Append(@, r.usage)]
    /\ log' = <<>>
    /\ UNCHANGED <<iteration, requests, files, summarize_calls, asm, stream, ua, heap, registry, proc>>

\* run_turn leaves by an exception: run_repl, lines 86-88, reports it and goes
\* on, unless printing the report raises in the handler and ends run_repl
TurnRaises(how, exc) ==
    /\ pc' = IF ReportRaises("Error: ", exc) THEN "exit" ELSE "read"
    /\ turn_result' = how
    /\ UNCHANGED <<messages, usage, iteration, response, tc_i, requests, files,
                   summarize_calls, asm, stream, ua, heap, registry, proc, obs>>

\* a slip: the failed request's usage is recorded before the failure propagates
StreamFail_recorded ==
    /\ pc = "reason"
    /\ VariedAllowed
    /\ varied' = varied + 1
    /\ pc' = "read"
    /\ turn_result' = "ProviderError"
    /\ usage' = record_usage(usage, Usage(30, 15))
    /\ UNCHANGED <<messages, iteration, response, tc_i, requests, files,
                   summarize_calls, log, asm, stream, ua, heap, registry, proc, obs>>

\* run_turn, line 48: stream_completion raised
StreamFail ==
    /\ pc = "reason"
    /\ VariedAllowed
    /\ varied' = varied + 1
    /\ \E exc \in ProviderErrors : TurnRaises("ProviderError", exc)
    /\ UNCHANGED log

\* a slip: the loop gives up one iteration early
Observe_early(result) ==
    /\ messages' = append(messages,
                          Message(TOOL, result.output, result.tool_call_id, <<>>))
    /\ IF tc_i < Len(response.tool_calls)
       THEN /\ tc_i' = tc_i + 1
            /\ pc' = "act"
            /\ UNCHANGED <<iteration, requests, turn_result, obs>>
       ELSE IF iteration + 2 < _MAX_ITERATIONS
       THEN /\ iteration' = iteration + 1
            /\ requests' = requests + 1
            /\ pc' = "reason"
            /\ tc_i' = 0
            /\ UNCHANGED turn_result
            /\ obs' = [obs EXCEPT !.request = RequestMessages(messages')]
       ELSE /\ pc' = "read"
            /\ turn_result' = "ABORTED"
            /\ tc_i' = 0
            /\ UNCHANGED <<iteration, requests, obs>>
    /\ UNCHANGED <<usage, response, summarize_calls, varied, asm, stream, ua, heap, registry, proc>>

\* a slip: when the cap is reached the last result is dropped
Observe_unappended(result) ==
    /\ IF tc_i < Len(response.tool_calls)
       THEN /\ tc_i' = tc_i + 1
            /\ pc' = "act"
            /\ messages' = append(messages,
                                  Message(TOOL, result.output, result.tool_call_id, <<>>))
            /\ UNCHANGED <<iteration, requests, turn_result, obs>>
       ELSE IF iteration + 1 < _MAX_ITERATIONS
       THEN /\ iteration' = iteration + 1
            /\ requests' = requests + 1
            /\ pc' = "reason"
            /\ tc_i' = 0
            /\ messages' = append(messages,
                                  Message(TOOL, result.output, result.tool_call_id, <<>>))
            /\ UNCHANGED turn_result
            /\ obs' = [obs EXCEPT !.request = RequestMessages(messages')]
       ELSE /\ pc' = "read"
            /\ turn_result' = "ABORTED"
            /\ tc_i' = 0
            /\ UNCHANGED <<messages, iteration, requests, obs>>
    /\ UNCHANGED <<usage, response, summarize_calls, varied, asm, stream, ua, heap, registry, proc>>

\* a slip: the TOOL message of a result is appended twice
Observe_doubled(result) ==
    /\ messages' = append(append(messages,
                                 Message(TOOL, result.output, result.tool_call_id, <<>>)),
                          Message(TOOL, result.output, result.tool_call_id, <<>>))
    /\ IF tc_i < Len(response.tool_calls)
       THEN /\ tc_i' = tc_i + 1
            /\ pc' = "act"
            /\ UNCHANGED <<iteration, requests, turn_result, obs>>
       ELSE IF iteration + 1 < _MAX_ITERATIONS
       THEN /\ iteration' = iteration + 1
            /\ requests' = requests + 1
            /\ pc' = "reason"
            /\ tc_i' = 0
            /\ UNCHANGED turn_result
            /\ obs' = [obs EXCEPT !.request = RequestMessages(messages')]
       ELSE /\ pc' = "read"
            /\ turn_result' = "ABORTED"
            /\ tc_i' = 0
            /\ UNCHANGED <<iteration, requests, obs>>
    /\ UNCHANGED <<usage, response, summarize_calls, varied, asm, stream, ua, heap, registry, proc>>

\* a slip: the results are gathered and only the last call's TOOL message is
\* appended before the next request
Observe_gathered(result) ==
    /\ messages' = IF tc_i < Len(response.tool_calls)
                   THEN messages
                   ELSE append(messages,
                               Message(TOOL, result.output, result.tool_call_id, <<>>))
    /\ IF tc_i < Len(response.tool_calls)
       THEN /\ tc_i' = tc_i + 1
            /\ pc' = "act"
            /\ UNCHANGED <<iteration, requests, turn_result, obs>>
       ELSE IF iteration + 1 < _MAX_ITERATIONS
       THEN /\ iteration' = iteration + 1
            /\ requests' = requests + 1
            /\ pc' = "reason"
            /\ tc_i' = 0
            /\ UNCHANGED turn_result
            /\ obs' = [obs EXCEPT !.request = RequestMessages(messages')]
       ELSE /\ pc' = "read"
            /\ turn_result' = "ABORTED"
            /\ tc_i' = 0
            /\ UNCHANGED <<iteration, requests, obs>>
    /\ UNCHANGED <<usage, response, summarize_calls, varied, asm, stream, ua, heap, registry, proc>>

\* run_turn, lines 67-73 and the loop heads of lines 64 and 44: append the TOOL
\* message, then go to the next call, the next iteration, or the for-else
Observe(result) ==
    /\ messages' = append(messages,
                          Message(TOOL, result.output, result.tool_call_id, <<>>))
    /\ IF tc_i < Len(response.tool_calls)
       THEN /\ tc_i' = tc_i + 1
            /\ pc' = "act"
            /\ UNCHANGED <<iteration, requests, turn_result, obs>>
       ELSE IF iteration + 1 < _MAX_ITERATIONS
       THEN /\ iteration' = iteration + 1
            /\ requests' = requests + 1
            /\ pc' = "reason"
            /\ tc_i' = 0
            /\ UNCHANGED turn_result
            /\ obs' = [obs EXCEPT !.request = RequestMessages(messages')]
       ELSE /\ pc' = "read"
            /\ turn_result' = "ABORTED"
            /\ tc_i' = 0
            /\ UNCHANGED <<iteration, requests, obs>>
    /\ UNCHANGED <<usage, response, summarize_calls, varied, asm, stream, ua, heap, registry, proc>>

\* execute, lines 30-50, up to its first await; _request_approval, lines 61-71
Execute ==
    /\ pc = "act"
    /\ LET tool_call == response.tool_calls[tc_i]
           called == Append(log, EvExecute(tool_call))
       IN  IF UnknownTool(tool_call.name)
           THEN /\ log' = Append(called,
                                 EvResult(tool_call, UnknownToolResult(tool_call)))
                /\ Observe(UnknownToolResult(tool_call))
                /\ UNCHANGED files
           ELSE IF NeedsApproval(tool_call)
           THEN IF ArgsDisplayRaises(tool_call)
                THEN /\ log' = called
                     /\ TurnRaises("ExecutorError", AttributeErrorText)
                     /\ UNCHANGED varied
                ELSE /\ log' = Append(called, EvPrompt(tool_call))
                     /\ pc' = "approval"
                     /\ UNCHANGED <<messages, usage, iteration, response, tc_i,
                                    turn_result, requests, files, summarize_calls,
                                    varied, asm, stream, ua, heap, registry, proc, obs>>
           ELSE /\ log' = called
                /\ pc' = "tool"
                /\ UNCHANGED <<messages, usage, iteration, response, tc_i,
                               turn_result, requests, files, summarize_calls, 
                               varied, asm, stream, ua, heap, registry, proc, obs>>

\* _request_approval, line 72, and execute, lines 41-50: input() returned a line
ApprovalAnswer ==
    /\ pc = "approval"
    /\ \E answer \in Answers :
        LET tool_call == response.tool_calls[tc_i]
            answered == Append(log, EvAnswer(tool_call, answer))
        IN  IF Approved(answer)
            THEN /\ log' = answered
                 /\ pc' = "tool"
                 /\ UNCHANGED <<messages, usage, iteration, response, tc_i,
                                turn_result, requests, summarize_calls, varied,
                                asm, stream, ua, heap, registry, proc, obs>>
            ELSE /\ log' = Append(answered,
                                  EvResult(tool_call, DeniedResult(tool_call)))
                 /\ Observe(DeniedResult(tool_call))
    /\ UNCHANGED files

\* _request_approval, line 71: input() raised EOFError (standard input is closed)
ApprovalEOF ==
    /\ pc = "approval"
    /\ TurnRaises("ExecutorError", EOFErrorText)
    /\ UNCHANGED <<log, varied>>

\* _run_tool, lines 90-112: fn(**arguments) returned or raised an Exception
RunTool ==
    /\ pc = "tool"
    /\ LET tool_call == response.tool_calls[tc_i]
       IN  \E env \in ToolEnv(tool_call.name) :
            LET result == _run_tool(tool_call, env, files)
            IN  /\ log' = IF ImplInvoked(tool_call)
                          THEN log \o <<EvInvoke(tool_call), EvResult(tool_call, result)>>
                          ELSE Append(log, EvResult(tool_call, result))
                /\ files' = IF ImplInvoked(tool_call)
                            THEN ToolEffect(tool_call.name, tool_call.arguments, env,
                                            files)
                            ELSE files
                /\ Observe(result)

\* History.compact, lines 88-97: summarize returned
Summarized ==
    /\ pc = "compact"
    /\ \E summary \in Summaries : messages' = CompactedMessages(summary)
    /\ usage' = Usage(0, 0)
    /\ pc' = "read"
    /\ turn_result' = "Compacted"
    /\ UNCHANGED <<iteration, response, tc_i, requests, log, files,
                   summarize_calls, varied, asm, stream, ua, heap, registry, proc, obs>>

\* a slip: a failed compaction leaves the history wiped
SummarizeFail_wiped ==
    /\ pc = "compact"
    /\ pc' = "read"
    /\ turn_result' = "CompactFailed"
    /\ messages' = <<>>
    /\ usage' = Usage(0, 0)
    /\ UNCHANGED <<iteration, response, tc_i, requests,
                   log, files, summarize_calls, varied, asm, stream, ua, heap, registry, proc, obs>>

\* History.compact, line 88: summarize raised; _do_compact, lines 114-116, reports it
SummarizeFail ==
    /\ pc = "compact"
    /\ \E exc \in ProviderErrors :
        pc' = IF ReportRaises("Compaction failed: ", exc) THEN "exit" ELSE "read"
    /\ turn_result' = "CompactFailed"
    /\ UNCHANGED <<messages, usage, iteration, response, tc_i, requests,
                   log, files, summarize_calls, varied, asm, stream, ua, heap, registry, proc, obs>>

\* a slip: an interrupt at the approval prompt is caught like any other
Interrupt_resumed ==
    /\ pc \in {"reason", "approval", "tool"}
    /\ VariedAllowed \/ pc = "approval"
    /\ varied' = varied + 1
    /\ \E caught \in BOOLEAN :
        /\ pc' = IF caught THEN "read" ELSE "exit"
        /\ turn_result' = "Interrupted"
    /\ obs' = [obs EXCEPT !.orphans = IF pc = "approval" THEN @ + 1 ELSE @]
    /\ UNCHANGED <<messages, usage, iteration, response, tc_i, requests, log, files,
                   summarize_calls, asm, stream, ua, heap, registry, proc>>

\* Ctrl-C while the turn is suspended: KeyboardInterrupt reaches run_repl, line 84,
\* or the cancellation of the main task passes it and ends the session.  At the
\* approval prompt the task is suspended on the future of executor.py, line 71,
\* where only the cancellation reaches it: CancelledError passes both except
\* clauses of run_repl.  The input() call itself runs in an executor thread,
\* which neither ends: the read stays blocked on the console.
Interrupt ==
    /\ pc \in {"reason", "approval", "tool"}
    /\ VariedAllowed \/ pc = "approval"
    /\ varied' = varied + 1
    /\ \E caught \in IF pc = "approval" THEN {FALSE} ELSE BOOLEAN :
        /\ pc' = IF caught THEN "read" ELSE "exit"
        /\ turn_result' = "Interrupted"
    /\ obs' = [obs EXCEPT !.orphans = IF pc = "approval" THEN @ + 1 ELSE @]
    /\ UNCHANGED <<messages, usage, iteration, response, tc_i, requests, log, files,
                   summarize_calls, asm, stream, ua, heap, registry, proc>>

\* executor.py, line 71: a line typed at the console is taken by an input() call
\* whose turn was left; nothing awaits its answer
OrphanRead ==
    /\ obs.orphans > 0
    /\ obs' = [obs EXCEPT !.orphans = @ - 1]
    /\ UNCHANGED <<turnVars, asm, stream, ua, heap, registry, proc>>

Next ==
    \/ ReadLine
    \/ ReadEnd
    \/ StreamReturn
    \/ StreamFail
    \/ Execute
    \/ ApprovalAnswer
    \/ ApprovalEOF
    \/ RunTool
    \/ Summarized
    \/ SummarizeFail
    \/ Interrupt
    \/ OrphanRead

Spec == Init /\ [][Next]_vars

\* The session task is resumed whenever the call it awaits has completed: a
\* completion request, an execute call, an approval answer and a tool run that
\* can return do return (or the turn is ended by a failure or an interrupt).
Fairness ==
    /\ WF_vars(StreamReturn)
    /\ WF_vars(Execute)
    /\ WF_vars(ApprovalAnswer)
    /\ WF_vars(RunTool)

SpecLive == Init /\ [][Next]_vars /\ Fairness

\* Sessions whose configuration sets a low max_history_tokens: zero, and the
\* total usage of a turn answered at once
LowCeilings == {0, total(TextResponse.usage)}

InitCeiling ==
    /\ \E ceiling \in LowCeilings : SessionStart(ceiling)
    /\ AtRest
    /\ asm = asmIdle
    /\ stream = <<>>
    /\ ua = <<>>

SpecCeiling == InitCeiling /\ [][Next]_vars

-----------------------------------------------------------------------------
(* providers/openrouter.py: the response assembler of stream_completion *)

Quote == "\""

\* json.loads on the fragment of JSON these characters spell (no blanks):
\*   value  ::= object | string | number
\*   object ::= { } | { string : value }
\*   string ::= " a* "        number ::= 1+
\* The result is [ok, err, val, rest]: whether a value was read, the exception
\* otherwise, the value, what follows it.  The decoder recurses once per
\* nested object and raises RecursionError when `room` nested calls are used up.
JsonFail(err) == [ok |-> FALSE, err |-> err, val |-> JDict(<<>>), rest |-> <<>>]

JsonOk(val, rest) == [ok |-> TRUE, err |-> "", val |-> val, rest |-> rest]

RECURSIVE ScanRun(_, _)
\* the longest prefix of s made of character c
ScanRun(s, c) ==
    IF s # <<>> /\ Head(s) = c THEN <<c>> \o ScanRun(Tail(s), c) ELSE <<>>

Drop(s, n) == SubSeq(s, n + 1, Len(s))

ParseString(s) ==
    IF s = <<>> \/ Head(s) # Quote THEN JsonFail("JSONDecodeError")
    ELSE LET body == ScanRun(Tail(s), "a")
             after == Drop(s, 1 + Len(body))
         IN  IF after # <<>> /\ Head(after) = Quote
             THEN JsonOk(JStr(Str(body)), Tail(after))
             ELSE JsonFail("JSONDecodeError")

RECURSIVE ParseValue(_, _)
ParseValue(s, room) ==
    IF s = <<>> THEN JsonFail("JSONDecodeError")
    ELSE IF Head(s) = "1"
    THEN LET digits == ScanRun(s, "1")
         IN  JsonOk(JNum(Str(digits)), Drop(s, Len(digits)))
    ELSE IF Head(s) = Quote THEN ParseString(s)
    ELSE IF Head(s) = "{"
    THEN IF room = 0 THEN JsonFail("RecursionError")
         ELSE IF Tail(s) # <<>> /\ Head(Tail(s)) = "}"
         THEN JsonOk(JDict(<<>>), Drop(s, 2))
         ELSE LET key == ParseString(Tail(s))
              IN  IF ~key.ok \/ key.rest = <<>> \/ Head(key.rest) # ":"
                  THEN JsonFail("JSONDecodeError")
                  ELSE LET v == ParseValue(Tail(key.rest), room - 1)
                       IN  IF ~v.ok THEN JsonFail(v.err)
                           ELSE IF v.rest # <<>> /\ Head(v.rest) = "}"
                           THEN JsonOk(JDict(<<Member(key.val.s, v.val)>>), Tail(v.rest))
                           ELSE JsonFail("JSONDecodeError")
    ELSE JsonFail("JSONDecodeError")

Decode(text, room) ==
    LET r == ParseValue(text, room)
    IN  IF r.ok /\ r.rest # <<>> THEN JsonFail("JSONDecodeError") ELSE r

\* json.loads(text) under the interpreter's recursion limit
JsonLoads(text) == Decode(text, RecursionLimit)

\* stream_completion, lines 202-206: only json.JSONDecodeError is caught.
\* The result is [raised, arguments]; raised is "" when a value is bound.
LoadArguments(args) ==
    IF args = <<>> THEN [raised |-> "", arguments |-> JDict(<<>>)]
    ELSE IF JsonLoads(args).ok THEN [raised |-> "", arguments |-> JsonLoads(args).val]
    ELSE IF JsonLoads(args).err = "JSONDecodeError"
    THEN [raised |-> "", arguments |-> JDict(<<>>)]
    ELSE [raised |-> JsonLoads(args).err, arguments |-> JDict(<<>>)]

\* a chunk of the stream, as the OpenAI client delivers it
TcDelta(index, id, name, arguments) ==
    [index |-> index, id |-> id, name |-> name, arguments |-> arguments]

Delta(content, tool_calls) == [content |-> content, tool_calls |-> tool_calls]

Chunk(usage_report, choices) == [usage |-> usage_report, choices |-> choices]

NewSlot == [id |-> "", name |-> "", args |-> <<>>]

\* stream_completion, lines 195-196
ApplyArgs(slot, tc_delta) ==
    IF tc_delta.arguments # <<>>
    THEN [slot EXCEPT !.args = @ \o tc_delta.arguments]
    ELSE slot

\* a slip: a second name fragment is appended to the slot's name
ApplyDelta_concat(acc, tc_delta) ==
    LET idx == tc_delta.index
        acc1 == IF idx \notin DOMAIN acc THEN acc @@ (idx :> NewSlot) ELSE acc
        s1 == IF tc_delta.id # "" THEN [acc1[idx] EXCEPT !.id = tc_delta.id]
              ELSE acc1[idx]
        s2 == IF tc_delta.name # "" THEN [s1 EXCEPT !.name = @ \o tc_delta.name] ELSE s1
    IN  [acc1 EXCEPT ![idx] = ApplyArgs(s2, tc_delta)]

\* stream_completion, lines 188-196: one tool-call delta
ApplyDelta(acc, tc_delta) ==
    LET idx == tc_delta.index
        acc1 == IF idx \notin DOMAIN acc THEN acc @@ (idx :> NewSlot) ELSE acc
        s1 == IF tc_delta.id # "" THEN [acc1[idx] EXCEPT !.id = tc_delta.id]
              ELSE acc1[idx]
        s2 == IF tc_delta.name # "" THEN [s1 EXCEPT !.name = tc_delta.name] ELSE s1
    IN  [acc1 EXCEPT ![idx] = ApplyArgs(s2, tc_delta)]

RECURSIVE ApplyDeltas(_, _)
\* stream_completion, line 187: for tc_delta in delta.tool_calls
ApplyDeltas(acc, tc_deltas) ==
    IF tc_deltas = <<>> THEN acc
    ELSE ApplyDeltas(ApplyDelta(acc, Head(tc_deltas)), Tail(tc_deltas))

\* a slip: text arriving in a chunk that also carries tool-call deltas is dropped
TextParts_exclusive(text_parts, delta) ==
    IF delta.content # <<>> /\ delta.tool_calls = <<>>
    THEN Append(text_parts, delta.content)
    ELSE text_parts

\* stream_completion, lines 180-182
TextParts(text_parts, delta) ==
    IF delta.content # <<>> THEN Append(text_parts, delta.content) ELSE text_parts

\* a slip: the reports are added up
LatestUsage_summed(usage_so_far, chunk) ==
    IF chunk.usage # <<>>
    THEN Usage(usage_so_far.input_tokens + chunk.usage[1].prompt_tokens,
               usage_so_far.output_tokens + chunk.usage[1].completion_tokens)
    ELSE usage_so_far

\* stream_completion, lines 168-172
LatestUsage(usage_so_far, chunk) ==
    IF chunk.usage # <<>>
    THEN Usage(chunk.usage[1].prompt_tokens, chunk.usage[1].completion_tokens)
    ELSE usage_so_far

\* stream_completion, lines 166-196: the body of `async for chunk in stream`
ProcessChunk(a, chunk) ==
    LET a1 == [a EXCEPT !.usage = LatestUsage(@, chunk)]
    IN  IF chunk.choices = <<>> THEN a1
        ELSE LET delta == chunk.choices[1]
             IN  [a1 EXCEPT
                    !.text_parts = TextParts(@, delta),
                    !.tool_calls_acc = ApplyDeltas(@, delta.tool_calls)]

RECURSIVE sorted_descending(_)
\* a slip: the slots are listed from the highest index down
sorted_descending(D) ==
    IF D = {} THEN <<>>
    ELSE LET most == CHOOSE x \in D : \A y \in D : y <= x
         IN  <<most>> \o sorted_descending(D \ {most})

RECURSIVE sorted(_)
\* sorted(tool_calls_acc): the slot indexes in ascending order
sorted(D) ==
    IF D = {} THEN <<>>
    ELSE LET least == CHOOSE x \in D : \A y \in D : x <= y
         IN  <<least>> \o sorted(D \ {least})

RECURSIVE join(_)
\* "".join(text_parts)
join(parts) == IF parts = <<>> THEN <<>> ELSE Head(parts) \o join(Tail(parts))

\* stream_completion, lines 198-216: the exception that escapes, or ""
AssembleRaises(a) ==
    LET order == sorted(DOMAIN a.tool_calls_acc)
        bad == {i \in 1..Len(order) :
                    LoadArguments(a.tool_calls_acc[order[i]].args).raised # ""}
    IN  IF bad = {} THEN ""
        ELSE LoadArguments(
                a.tool_calls_acc[order[CHOOSE i \in bad : \A j \in bad : i <= j]].args
             ).raised

\* stream_completion, lines 198-216: the message returned
Assemble(a) ==
    LET order == sorted(DOMAIN a.tool_calls_acc)
        assembled_tool_calls ==
            [i \in 1..Len(order) |->
                ToolCall(a.tool_calls_acc[order[i]].id,
                         a.tool_calls_acc[order[i]].name,
                         LoadArguments(a.tool_calls_acc[order[i]].args).arguments)]
    IN  Message(ASSISTANT, Str(join(a.text_parts)), None, assembled_tool_calls)

-----------------------------------------------------------------------------
(* The stream the provider delivers to one stream_completion call *)

\* the complete argument texts slot 0 may be sent; the stream may end anywhere
ArgTexts ==
    { <<"{", Quote, "a", Quote, ":", "1", "}">>,
      <<"{", Quote, "a", Quote, ":", "{", "}", "}">>,
      <<"{", Quote, "a", Quote, ":", "{", Quote, "a", Quote, ":", "{", "}", "}", "}">>,
      <<"{", "}", "}">>,
      <<Quote, "a", "a", Quote>>,
      <<"1", "1">> }

Slot1Text == <<"{", "}">>

StreamText == <<"h", "i">>

\* the usage reports (chunk.usage) the provider may send
UsageReports ==
    { [prompt_tokens |-> 10, completion_tokens |-> 5],
      [prompt_tokens |-> 20, completion_tokens |-> 10] }

\* the id and name fields a delta of a slot may carry ("" when absent)
Headers(index) ==
    IF index = 0
    THEN { [id |-> "", name |-> ""], [id |-> "tc-1", name |-> ""],
           [id |-> "", name |-> "think"], [id |-> "", name |-> "write_file"],
           [id |-> "tc-1", name |-> "think"] }
    ELSE { [id |-> "", name |-> ""], [id |-> "tc-2", name |-> "think"] }

\* the next n characters the provider has not yet sent of a text
Pending(whole, sent, n) == SubSeq(whole, sent + 1, sent + n)

FragLens(whole, sent) ==
    {n \in 0..MaxFrag : sent + n <= Len(whole)}

\* the deltas a chunk may carry for one slot
SlotDeltas(index) ==
    { TcDelta(index, h.id, h.name,
              Pending(stream.args[index], stream.asent[index], n)) :
        h \in Headers(index), n \in FragLens(stream.args[index], stream.asent[index]) }

\* two deltas in one chunk, one per slot, in either order
PairDeltas ==
    LET bare(index) == {d \in SlotDeltas(index) : d.id = "" /\ d.name = ""}
    IN  {<<d, e>> : d \in bare(0), e \in bare(1)}
        \cup {<<e, d>> : d \in bare(0), e \in bare(1)}

TextFrags ==
    {Pending(stream.text, stream.tsent, n) : n \in FragLens(stream.text, stream.tsent)}

\* the chunks the provider may deliver next
NextChunks ==
    LET lists == {<<>>} \cup {<<d>> : d \in SlotDeltas(0) \cup SlotDeltas(1)}
                 \cup PairDeltas
        plain == {Chunk(<<>>, <<Delta(t, l)>>) : t \in TextFrags, l \in lists}
        report == {Chunk(<<u>>, <<>>) : u \in UsageReports}
        both == {Chunk(<<u>>, <<Delta(t, l)>>) :
                    u \in UsageReports, t \in TextFrags,
                    l \in {<<>>} \cup {<<d>> : d \in {x \in SlotDeltas(0) : x.id = ""}}}
    IN  plain \cup report \cup both

RECURSIVE FirstArrivals(_, _)
\* the slot indexes in the order their first delta arrived
FirstArrivals(arrived, tc_deltas) ==
    IF tc_deltas = <<>> THEN arrived
    ELSE FirstArrivals(IF \E i \in 1..Len(arrived) : arrived[i] = Head(tc_deltas).index
                       THEN arrived
                       ELSE Append(arrived, Head(tc_deltas).index),
                       Tail(tc_deltas))

\* what the provider has sent once the chunk is delivered
Sent(chunk) ==
    LET delta == chunk.choices[1]
        argsSent(index) ==
            LET D == {i \in 1..Len(delta.tool_calls) : delta.tool_calls[i].index = index}
            IN  IF D = {} THEN 0
                ELSE Len(delta.tool_calls[CHOOSE i \in D : TRUE].arguments)
        s1 == IF chunk.usage # <<>> THEN [stream EXCEPT !.reported = chunk.usage]
              ELSE stream
    IN  IF chunk.choices = <<>> THEN s1
        ELSE [s1 EXCEPT
                !.tsent = @ + Len(delta.content),
                !.asent = [index \in DOMAIN @ |-> @[index] + argsSent(index)],
                !.arrived = FirstArrivals(@, delta.tool_calls)]

asmStart ==
    [text_parts |-> <<>>, tool_calls_acc |-> <<>>, usage |-> Usage(0, 0),
     outcome |-> "streaming", message |-> NoResponse]

InitAsm ==
    /\ SessionInit
    /\ AtRest
    /\ ua = <<>>
    /\ asm = asmStart
    /\ \E t \in ArgTexts :
        stream = [text |-> StreamText, tsent |-> 0,
                  args |-> (0 :> t) @@ (1 :> Slot1Text),
                  asent |-> (0 :> 0) @@ (1 :> 0),
                  arrived |-> <<>>, reported |-> <<>>]

\* stream_completion, lines 166-196: the next chunk arrives
ChunkArrives ==
    /\ asm.outcome = "streaming"
    /\ \E chunk \in NextChunks :
        /\ asm' = ProcessChunk(asm, chunk)
        /\ stream' = Sent(chunk)
    /\ UNCHANGED <<turnVars, ua, heap, registry, proc, obs>>

\* stream_completion, lines 198-216: the stream ends; the message is assembled
\* and returned, or an exception of the assembly escapes
StreamEnds ==
    /\ asm.outcome = "streaming"
    /\ asm' = IF AssembleRaises(asm) = ""
              THEN [asm EXCEPT !.outcome = "returned", !.message = Assemble(asm)]
              ELSE [asm EXCEPT !.outcome = AssembleRaises(asm)]
    /\ UNCHANGED <<turnVars, stream, ua, heap, registry, proc, obs>>

NextAsm == ChunkArrives \/ StreamEnds

SpecAsm == InitAsm /\ [][NextAsm]_vars

-----------------------------------------------------------------------------
(* memory.py: usages recorded into histories, in any order and grouping *)

\* the usages a completion may report
Usages == {Usage(i, o) : i \in 0..MaxTokens, o \in 0..MaxTokens}

\* History(): no usage recorded yet
NewHistory == [usage |-> Usage(0, 0), recorded |-> <<>>]

Range(f) == {f[i] : i \in DOMAIN f}

\* Three usages a, b, c (ua.abc) are recorded into the session's history, whose
\* counters are `usage`; ua.recorded lists the ones recorded so far, in order.
\* ua.side is a second History that accumulates some of them first.
InitUsage ==
    /\ SessionInit
    /\ AtRest
    /\ asm = asmIdle
    /\ stream = <<>>
    /\ \E a \in Usages, b \in Usages, c \in Usages :
        ua = [abc |-> <<a, b, c>>, recorded |-> <<>>, side |-> NewHistory, merges |-> 0]

Unrecorded == (1..3) \ (Range(ua.recorded) \cup Range(ua.side.recorded))

\* history.record_usage(u) on the session's history
Record ==
    /\ \E i \in Unrecorded :
        /\ usage' = record_usage(usage, ua.abc[i])
        /\ ua' = [ua EXCEPT !.recorded = Append(@, i)]
    /\ UNCHANGED <<pc, messages, iteration, response, tc_i, turn_result, requests,
                   log, files, summarize_calls, varied, asm, stream, heap, registry, proc, obs>>

\* side.record_usage(u) on the second history
RecordSide ==
    /\ \E i \in Unrecorded :
        ua' = [ua EXCEPT !.side = [usage |-> record_usage(@.usage, ua.abc[i]),
                                   recorded |-> Append(@.recorded, i)]]
    /\ UNCHANGED <<turnVars, asm, stream, heap, registry, proc, obs>>

\* history.record_usage(side.usage): the group accumulated on the side is
\* recorded as one usage, and a fresh second history takes its place
RecordGroup ==
    /\ ua.side.recorded # <<>>
    /\ usage' = record_usage(usage, ua.side.usage)
    /\ ua' = [ua EXCEPT !.recorded = @ \o ua.side.recorded,
                        !.side = NewHistory,
                        !.merges = @ + 1]
    /\ UNCHANGED <<pc, messages, iteration, response, tc_i, turn_result, requests,
                   log, files, summarize_calls, varied, asm, stream, heap, registry, proc, obs>>

NextUsage == Record \/ RecordSide \/ RecordGroup

SpecUsage == InitUsage /\ [][NextUsage]_vars

-----------------------------------------------------------------------------
(* memory.py: History.messages and the objects it shares with its callers *)

\* heap.obj is the store of Message objects (an address is an index into it);
\* heap._messages is History._messages and heap.snapshot the list the latest
\* History.messages call returned, both lists of addresses.  heap.taken is the
\* value the snapshot had when it was returned, heap.expected the value of the
\* log that History's own operations have built, heap.touched whether the
\* caller has changed its snapshot since.

\* the messages callers append
NewMessages ==
    { Message(USER, "hi", None, <<>>),
      Message(ASSISTANT, "", None, <<ToolCall("tc-1", "think", Dict1("thought", JStr("a")))>>),
      Message(TOOL, "a", "tc-1", <<>>) }

\* what a caller writes into a Message it reached through a snapshot
CallerEdits(m) ==
    { [m EXCEPT !.content = "x"],
      [m EXCEPT !.tool_calls = <<>>] }

\* the Message values a list of addresses denotes
Deref(refs) == [i \in 1..Len(refs) |-> heap.obj[refs[i]]]

InitSnapshot ==
    /\ SessionInit
    /\ asm = asmIdle
    /\ stream = <<>>
    /\ ua = <<>>
    /\ registry = <<>>
    /\ proc = <<>>
    /\ heap = [obj |-> <<>>, _messages |-> <<>>, snapshot |-> <<>>, taken |-> <<>>,
               expected |-> <<>>, returned |-> FALSE, touched |-> FALSE]

\* History.append(message): the caller's object is stored in the log
HistoryAppend ==
    /\ Len(heap.obj) < MaxObjects
    /\ \E m \in NewMessages :
        heap' = [heap EXCEPT !.obj = Append(@, m),
                             !._messages = Append(@, Len(heap.obj) + 1),
                             !.expected = Append(@, m)]
    /\ UNCHANGED <<turnVars, asm, stream, ua, registry, proc, obs>>

\* History.messages: list(self._messages), a new list of the same objects
HistoryMessages ==
    /\ heap' = [heap EXCEPT !.snapshot = heap._messages,
                            !.taken = Deref(heap._messages),
                            !.returned = TRUE,
                            !.touched = FALSE]
    /\ UNCHANGED <<turnVars, asm, stream, ua, registry, proc, obs>>

\* History.compact, lines 90-95: the log becomes a new list of one new Message
HistoryCompact ==
    /\ heap._messages # <<>>
    /\ Len(heap.obj) < MaxObjects
    /\ \E summary \in Summaries :
        heap' = [heap EXCEPT !.obj = Append(@, CompactedMessages(summary)[1]),
                             !._messages = <<Len(heap.obj) + 1>>,
                             !.expected = CompactedMessages(summary)]
    /\ UNCHANGED <<turnVars, asm, stream, ua, registry, proc, obs>>

\* History.clear: the log becomes a new empty list
HistoryClear ==
    /\ heap' = [heap EXCEPT !._messages = <<>>, !.expected = <<>>]
    /\ UNCHANGED <<turnVars, asm, stream, ua, registry, proc, obs>>

\* the caller adds an element to, or removes one from, the list it was returned
CallerResizes ==
    /\ heap.returned
    /\ \/ /\ Len(heap.obj) < MaxObjects
          /\ \E m \in NewMessages :
                heap' = [heap EXCEPT !.obj = Append(@, m),
                                     !.snapshot = Append(@, Len(heap.obj) + 1),
                                     !.touched = TRUE]
       \/ /\ heap.snapshot # <<>>
          /\ heap' = [heap EXCEPT !.snapshot = Tail(@), !.touched = TRUE]
    /\ UNCHANGED <<turnVars, asm, stream, ua, registry, proc, obs>>

\* the caller modifies a Message it reached through the list it was returned
CallerModifies ==
    /\ heap.returned
    /\ \E i \in 1..Len(heap.snapshot) :
        \E m \in CallerEdits(heap.obj[heap.snapshot[i]]) :
            heap' = [heap EXCEPT !.obj[heap.snapshot[i]] = m, !.touched = TRUE]
    /\ UNCHANGED <<turnVars, asm, stream, ua, registry, proc, obs>>

NextSnapshot ==
    \/ HistoryAppend
    \/ HistoryMessages
    \/ HistoryCompact
    \/ HistoryClear
    \/ CallerResizes
    \/ CallerModifies

SpecSnapshot == InitSnapshot /\ [][NextSnapshot]_vars

-----------------------------------------------------------------------------
(* Properties of the turn loop and the executor *)

\* index of the last USER message of the log, 0 when there is none
LastUser ==
    LET U == {i \in 1..Len(messages) : messages[i].role = USER}
    IN  IF U = {} THEN 0 ELSE CHOOSE i \in U : \A j \in U : j <= i

\* the messages of the latest turn, from its USER message on
TurnLog ==
    IF LastUser = 0 THEN <<>> ELSE SubSeq(messages, LastUser, Len(messages))

\* the responses appended by the latest turn
TurnResponses == SelectSeq(TurnLog, LAMBDA m : m.role = ASSISTANT)

ResponsesWithCalls == SelectSeq(TurnResponses, LAMBDA m : m.tool_calls # <<>>)

TurnOver ==
    /\ pc \in {"read", "exit"}
    /\ turn_result \in {"DONE", "ABORTED", "ProviderError", "ExecutorError", "Interrupted"}

EventsOf(kind) == SelectSeq(log, LAMBDA ev : ev.e = kind)

\* C1: one run_turn issues at most 20 stream_completion requests, and a turn in
\* which every request was answered by a response carrying a tool call issues
\* exactly 20 requests and returns normally (interrupted turns set aside).
C1_IterationCap ==
    /\ requests <= _MAX_ITERATIONS
    /\ ( /\ TurnOver
         /\ turn_result # "Interrupted"
         /\ Len(TurnResponses) = requests
         /\ Len(ResponsesWithCalls) = requests )
       => (requests = _MAX_ITERATIONS /\ turn_result = "ABORTED")

\* C2: when the first k responses of a turn carry tool calls and response k+1
\* carries none, the turn ends after exactly k+1 requests: the tool-call-free
\* response is the last message, no tool runs after it, and a turn that is still
\* in flight has seen no tool-call-free response.
C2_DoneAfterToolFreeResponse ==
    /\ (turn_result = "DONE" /\ LastUser > 0) =>
          /\ ~InFlight
          /\ requests = Len(ResponsesWithCalls) + 1
          /\ Len(TurnResponses) = requests
          /\ messages[Len(messages)].role = ASSISTANT
          /\ messages[Len(messages)].tool_calls = <<>>
          /\ log = <<>>
    /\ InFlight => Len(ResponsesWithCalls) = Len(TurnResponses)

\* C2 witness: list_directory, then a text-only reply: the turn is done after 2 requests
C2_Witness ==
    /\ turn_result = "DONE"
    /\ requests = 2
    /\ Len(messages) = 4
    /\ messages[2].tool_calls # <<>>
    /\ messages[2].tool_calls[1].name = "list_directory"
    /\ messages[3].role = TOOL
    /\ messages[4].tool_calls = <<>>

\* C3: when an ACT phase is over (interrupted turns set aside), the executor was
\* invoked exactly once per tool call of the response, in order, and the last n
\* messages are the TOOL messages of the n calls, the i-th carrying the i-th
\* result's output and the i-th call's id.
C3_ActPhaseComplete ==
    LET calls == response.tool_calls
        n == Len(calls)
        execs == EventsOf("execute")
        res == EventsOf("result")
    IN  ( /\ n > 0
          /\ pc \in {"reason", "read", "exit"}
          /\ LastUser > 0
          /\ turn_result # "Interrupted" )
        => /\ Len(execs) = n
           /\ \A i \in 1..n : execs[i].call = calls[i]
           /\ Len(res) = n
           /\ Len(messages) > n
           /\ \A i \in 1..n :
                LET m == messages[Len(messages) - n + i]
                IN  /\ m.role = TOOL
                    /\ m.content = res[i].result.output
                    /\ m.tool_call_id = calls[i].id

\* C4: execute always returns a ToolResult: whenever no execute call is in
\* progress, every call handed to the executor has returned a result
\* (interrupted turns set aside).
C4_ExecuteAlwaysReturns ==
    (pc \notin {"approval", "tool"} /\ turn_result # "Interrupted")
        => Len(EventsOf("execute")) = Len(EventsOf("result"))

IsDeniedResult(result) ==
    result.is_error /\ result.output = "Tool execution denied by user."

\* an answer other than y or Y, surrounding blanks ignored
PlainDenial(answer) ==
    ~ \E k \in 1..Len(answer) :
        /\ answer[k] \in {"y", "Y"}
        /\ \A j \in 1..Len(answer) : j # k => answer[j] = Space

\* C5: a prompt is shown only for a REQUIRES_APPROVAL tool, never for a SAFE one;
\* and the step that reads a denial invokes no implementation, creates no file,
\* and returns an error-flagged result whose output says "denied by user".
C5_ApprovalGate ==
    [][ /\ \A i \in 1..Len(log') :
            log'[i].e = "prompt" =>
                /\ ~UnknownTool(log'[i].call.name)
                /\ TOOL_REGISTRY[log'[i].call.name].safety = REQUIRES_APPROVAL
        /\ \A i \in 1..Len(log') :
            (log'[i].e = "execute" /\ ~UnknownTool(log'[i].call.name)
                /\ TOOL_REGISTRY[log'[i].call.name].safety = SAFE)
            => (i = Len(log') \/ log'[i + 1].e # "prompt")
        /\ \A i \in (Len(log) + 1)..Len(log') :
            (log'[i].e = "answer" /\ PlainDenial(log'[i].answer)) =>
                /\ pc' # "tool"
                /\ files' = files
                /\ Len(log') = i + 1
                /\ log'[i + 1].e = "result"
                /\ IsDeniedResult(log'[i + 1].result) ]_vars

\* C5 witness: a denied write_file has returned and its target does not exist
C5_Witness ==
    /\ Len(log) = 4
    /\ log[1].call.name = "write_file"
    /\ log[3].e = "answer"
    /\ log[3].answer = <<"n">>
    /\ IsDeniedResult(log[4].result)
    /\ "f" \notin files

\* what the prompt did with the i-th logged event, an answer
TreatedAsApproval(i) ==
    ~(i < Len(log) /\ log[i + 1].e = "result" /\ IsDeniedResult(log[i + 1].result))

\* C6 as stated: an answer is treated as approval only when it is exactly y or Y.
C6_ExactlyY ==
    \A i \in 1..Len(log) :
        log[i].e = "answer" =>
            (TreatedAsApproval(i) <=> log[i].answer \in {<<"y">>, <<"Y">>})

\* C6 amended: an answer is treated as approval exactly when it is y or Y with
\* any leading and trailing blanks; everything else, the empty answer and "yes"
\* included, is a denial.
C6_YUpToBlanks ==
    \A i \in 1..Len(log) :
        log[i].e = "answer" =>
            (TreatedAsApproval(i) <=> ~PlainDenial(log[i].answer))

\* C6 witness: " y " was approved, and elsewhere "yes" is denied
C6_Witness ==
    \E i \in 1..Len(log) :
        /\ log[i].e = "answer"
        /\ log[i].answer = <<Space, "y", Space>>
        /\ TreatedAsApproval(i)
        /\ pc = "tool"

-----------------------------------------------------------------------------
(* Properties of the response assembler *)

\* the text the provider has delivered so far: its text deltas in arrival order
TextDelivered == Pending(stream.text, 0, stream.tsent)

\* the argument text delivered so far for a slot: its fragments in arrival order
ArgsDelivered(index) == Pending(stream.args[index], 0, stream.asent[index])

\* the assembled tool call of a slot: slots are listed by ascending index
CallOfSlot(index) ==
    asm.message.tool_calls[Cardinality({j \in DOMAIN asm.tool_calls_acc : j <= index})]

\* the grammar alone decides whether a text is well formed, whatever its depth
WellFormed(text) == Decode(text, Len(text) + 1).ok

\* C7: the content of the assembled response is the concatenation of the text
\* deltas in arrival order, however they were interleaved with tool-call deltas
\* and usage reports; with no text delta the content is the empty string.
C7_ContentIsConcatenation ==
    asm.outcome = "returned" =>
        /\ asm.message.content = Str(TextDelivered)
        /\ (stream.tsent = 0 => asm.message.content = "")

\* C7 witness: "h" and "i" arrived as separate deltas around tool-call deltas of
\* two slots and a usage report, and the content is "hi"
C7_Witness ==
    /\ asm.outcome = "returned"
    /\ asm.text_parts = <<(<<"h">>), (<<"i">>)>>
    /\ asm.message.content = "hi"
    /\ DOMAIN asm.tool_calls_acc = {0, 1}
    /\ stream.asent[0] > 0
    /\ asm.usage # Usage(0, 0)

\* C8 as stated: once the stream has ended, each slot's arguments are the value
\* of its whole argument text when that text is well formed, and when the text
\* is malformed or incomplete the response is returned, without an exception,
\* with an empty mapping for the slot.
C8_FragmentsParseAsWhole ==
    asm.outcome # "streaming" =>
        \A index \in DOMAIN asm.tool_calls_acc :
            IF WellFormed(ArgsDelivered(index))
            THEN asm.outcome = "returned" =>
                    CallOfSlot(index).arguments
                        = Decode(ArgsDelivered(index), Len(ArgsDelivered(index)) + 1).val
            ELSE /\ asm.outcome = "returned"
                 /\ CallOfSlot(index).arguments = JDict(<<>>)

-----------------------------------------------------------------------------
(* Properties of the history *)

IsSummaryMessage(m) ==
    /\ m.role = ASSISTANT
    /\ m.tool_calls = <<>>
    /\ m.tool_call_id = None
    /\ \E summary \in Summaries : m.content = "[Conversation summary]\n" \o summary

\* C9: compact on a history with at least one message calls the summarizer
\* exactly once and, when it returns, leaves exactly one message, an ASSISTANT
\* message wrapping the summary, and cumulative usage zero; compact on an empty
\* history makes no summarizer call and leaves messages and usage unchanged.
C9_Compact ==
    [][ /\ (pc = "read" /\ pc' = "compact") =>
              /\ messages # <<>>
              /\ summarize_calls' = 1
              /\ messages' = messages /\ usage' = usage
        /\ (pc = "compact" /\ turn_result' = "Compacted") =>
              /\ messages # <<>>
              /\ summarize_calls' = 1
              /\ Len(messages') = 1
              /\ IsSummaryMessage(messages'[1])
              /\ usage' = Usage(0, 0)
        /\ (pc = "read" /\ pc' = "read" /\ turn_result' = "Compacted") =>
              /\ messages = <<>>
              /\ summarize_calls' = 0
              /\ messages' = messages /\ usage' = usage
      ]_vars

\* C9 witness: a history of a whole turn, with usage recorded, has been compacted
\* in the second turn's place: one summary message, usage zero, one summarizer call
C9_Witness ==
    /\ pc = "read"
    /\ turn_result = "Compacted"
    /\ summarize_calls = 1
    /\ requests = _MAX_ITERATIONS
    /\ Len(messages) = 1
    /\ IsSummaryMessage(messages[1])
    /\ usage = Usage(0, 0)

InputOf(i) == ua.abc[i].input_tokens

OutputOf(i) == ua.abc[i].output_tokens

RECURSIVE SumInput(_)
\* the sum of the input counters of a set of the usages, whatever the order
SumInput(S) ==
    IF S = {} THEN 0
    ELSE LET x == CHOOSE y \in S : TRUE IN InputOf(x) + SumInput(S \ {x})

RECURSIVE SumOutput(_)
SumOutput(S) ==
    IF S = {} THEN 0
    ELSE LET x == CHOOSE y \in S : TRUE IN OutputOf(x) + SumOutput(S \ {x})

\* C10: in whatever order and grouping usages a, b, c were recorded, the
\* cumulative input and output counters are the sums of the recorded usages'
\* counters (so every order and grouping of the same usages agrees), and total
\* is input plus output.
C10_UsageSums ==
    /\ usage.input_tokens = SumInput(Range(ua.recorded))
    /\ usage.output_tokens = SumOutput(Range(ua.recorded))
    /\ total(usage) = SumInput(Range(ua.recorded))
                        + SumOutput(Range(ua.recorded))
    /\ Len(ua.recorded) = 3 =>
          /\ usage.input_tokens = InputOf(1) + InputOf(2) + InputOf(3)
          /\ usage.output_tokens = OutputOf(1) + OutputOf(2) + OutputOf(3)

\* C10 witness: c was recorded first, then a and b as one group accumulated on
\* the side in the order b, a; the three usages differ and the counters are sums
C10_Witness ==
    /\ ua.recorded = <<3, 2, 1>>
    /\ ua.merges = 1
    /\ ua.abc = <<Usage(1, 0), Usage(0, 2), Usage(2, 1)>>
    /\ usage = Usage(3, 3)
    /\ total(usage) = 6

-----------------------------------------------------------------------------
(* Properties of the history during a session *)

\* index of the nearest ASSISTANT message before position i, 0 when there is none
AssistantBefore(i) ==
    LET prior == {j \in 1..(i - 1) : messages[j].role = ASSISTANT}
    IN  IF prior = {} THEN 0 ELSE CHOOSE j \in prior : \A k \in prior : k <= j

\* the id of the TOOL message at i is the id of a tool call of that ASSISTANT message
AnswersACall(i) ==
    /\ AssistantBefore(i) > 0
    /\ \E k \in 1..Len(messages[AssistantBefore(i)].tool_calls) :
          messages[AssistantBefore(i)].tool_calls[k].id = messages[i].tool_call_id

\* C11 as stated: every TOOL message of the history carries a non-empty
\* tool-call id, and that id is the id of some tool call of the nearest
\* preceding ASSISTANT message.
C11_ToolMessageIds ==
    \A i \in 1..Len(messages) :
        messages[i].role = TOOL =>
            /\ messages[i].tool_call_id \notin {"", None}
            /\ AnswersACall(i)

\* C12: when stream_completion fails in iteration k, the failure reaches
\* run_turn's caller, which ends the turn; no ASSISTANT message is appended and
\* no usage recorded for that iteration, and the user message and the k-1
\* responses and their results stay in the history unchanged.
C12_ProviderFailure ==
    [][ (pc = "reason" /\ turn_result' = "ProviderError") =>
            /\ pc' \in {"read", "exit"}
            /\ messages' = messages
            /\ usage' = usage
            /\ LastUser > 0
            /\ Len(TurnResponses) = requests - 1
      ]_vars

\* C12 witness: the 20th request of a turn failed after 19 tool iterations
C12_Witness ==
    /\ pc = "read"
    /\ turn_result = "ProviderError"
    /\ requests = _MAX_ITERATIONS
    /\ Len(messages) = 2 * _MAX_ITERATIONS - 1
    /\ messages[1].role = USER
    /\ messages[Len(messages)].role = TOOL
    /\ usage = Usage(20 * (_MAX_ITERATIONS - 1), 10 * (_MAX_ITERATIONS - 1))

\* C13 as stated: an interrupt arriving while a turn is in flight (during a
\* completion request, an approval prompt or a tool execution) is caught at the
\* turn boundary: the messages appended before it stay in the history and the
\* session goes on to read the next user line.
C13_InterruptCaught ==
    [][ (pc \in {"reason", "approval", "tool"} /\ turn_result' = "Interrupted") =>
            /\ pc' = "read"
            /\ messages' = messages
      ]_vars

-----------------------------------------------------------------------------
(* Properties of History.messages *)

\* C14 as stated: a snapshot returned by History.messages is not changed by any
\* later History operation, and nothing the caller does to the snapshot (adding
\* or removing elements, modifying a Message reached through it) changes
\* History's message log.
C14_SnapshotIsolation ==
    /\ (heap.returned /\ ~heap.touched) => Deref(heap.snapshot) = heap.taken
    /\ Deref(heap._messages) = heap.expected

-----------------------------------------------------------------------------
(* Properties of tool results *)

\* C15: executing a call whose name is not registered returns at once an
\* error-flagged result that names the tool: no prompt is shown, no
\* implementation invoked, no file touched; the result is appended as a TOOL
\* message and the turn goes on to the next call of the response, or to the
\* next REASON iteration when it was the last one.
C15_UnknownTool ==
    [][ (pc = "act" /\ UnknownTool(response.tool_calls[tc_i].name)) =>
          LET tool_call == response.tool_calls[tc_i]
              text == "Error: unknown tool '" \o tool_call.name \o "'."
          IN  /\ Len(log') = Len(log) + 2
              /\ SubSeq(log', 1, Len(log)) = log
              /\ log'[Len(log) + 1] = EvExecute(tool_call)
              /\ log'[Len(log) + 2].e = "result"
              /\ log'[Len(log) + 2].result.is_error
              /\ log'[Len(log) + 2].result.output = text
              /\ messages' = Append(messages, Message(TOOL, text, tool_call.id, <<>>))
              /\ files' = files
              /\ tc_i < Len(response.tool_calls) => (pc' = "act" /\ tc_i' = tc_i + 1)
              /\ (tc_i = Len(response.tool_calls) /\ iteration + 1 < _MAX_ITERATIONS) =>
                    (pc' = "reason" /\ requests' = requests + 1)
      ]_vars

\* C15 witness: nonexistent_tool was answered with the error, the think call
\* after it ran, and the second request of the turn is under way
C15_Witness ==
    /\ pc = "reason"
    /\ requests = 2
    /\ Len(log) = 5
    /\ log[1].e = "execute" /\ log[1].call.name = "nonexistent_tool"
    /\ log[2].e = "result" /\ log[2].result.is_error
    /\ log[3].e = "execute" /\ log[3].call.name = "think"
    /\ log[4].e = "invoke"
    /\ messages[Len(messages) - 1].role = TOOL
    /\ messages[Len(messages) - 1].content = "Error: unknown tool 'nonexistent_tool'."

\* the outputs by which the executor reports an error of a call to a tool
ExecutorErrorTexts(name) ==
    { "Error: unknown tool '" \o name \o "'.",
      "Tool execution denied by user.",
      "Error: invalid arguments for tool '" \o name \o "'",
      "Error: unexpected error in tool '" \o name \o "'" }

\* the 'Error...' outputs by which a tool itself reports a failure
ToolErrorTexts(name) ==
    { "Error writing file", "Error reading file", "Error: file not found: f",
      "Error: " \o name \o " failed" }

\* C16 as stated: a ToolResult's error flag is set exactly for tool errors:
\* unknown tool, denied approval, bad arguments, internal tool failure, and a
\* failure that the tool reports as 'Error...' text.
C16_ErrorFlag ==
    \A i \in 1..Len(log) :
        log[i].e = "result" =>
            ( log[i].result.is_error
              <=> log[i].result.output \in ExecutorErrorTexts(log[i].result.name)
                                           \cup ToolErrorTexts(log[i].result.name) )

\* C17: whatever the outcome of execute (success, unknown tool, denial, invalid
\* arguments, internal error), the ToolResult it returns carries the call's id
\* as tool_call_id and the call's name as name.
C17_ResultCarriesIdAndName ==
    \A i \in 1..Len(log) :
        log[i].e = "result" =>
            /\ log[i].result.tool_call_id = log[i].call.id
            /\ log[i].result.name = log[i].call.name

\* C17 witness: write_file (tc-1) was denied and read_file (tc-2) then ran; both
\* results carry their call's id and name
C17_Witness ==
    /\ Len(EventsOf("result")) = 2
    /\ EventsOf("result")[1].result = DeniedResult(ToolCall("tc-1", "write_file", WriteArgs))
    /\ EventsOf("result")[1].result.tool_call_id = "tc-1"
    /\ EventsOf("result")[2].result.tool_call_id = "tc-2"
    /\ EventsOf("result")[2].result.name = "read_file"
    /\ ~EventsOf("result")[2].result.is_error

-----------------------------------------------------------------------------
(* memory.py: History.is_over_limit *)

\* Here the History is (messages, usage) and ua is [max_history_tokens, last]:
\* the ceiling it was constructed with and the latest operation made on it.

\* the ceilings a configuration may give: config.py:81 accepts any integer
Ceilings == -1..MaxCeiling

InitLimit ==
    /\ SessionInit
    /\ AtRest
    /\ asm = asmIdle
    /\ stream = <<>>
    /\ \E ceiling \in Ceilings : ua = [max_history_tokens |-> ceiling, last |-> "init"]

\* History.append
LimitAppend ==
    /\ messages = <<>>
    /\ messages' = append(messages, Message(USER, "hi", None, <<>>))
    /\ ua' = [ua EXCEPT !.last = "append"]
    /\ UNCHANGED <<pc, usage, iteration, response, tc_i, turn_result, requests,
                   log, files, summarize_calls, varied, asm, stream, heap, registry, proc, obs>>

\* History.record_usage
LimitRecord ==
    /\ total(usage) <= MaxCeiling
    /\ \E u \in Usages : usage' = record_usage(usage, u)
    /\ ua' = [ua EXCEPT !.last = "record_usage"]
    /\ UNCHANGED <<pc, messages, iteration, response, tc_i, turn_result, requests,
                   log, files, summarize_calls, varied, asm, stream, heap, registry, proc, obs>>

\* History.compact, lines 83-97, with a summarizer that returns
LimitCompact ==
    /\ IF messages = <<>>
       THEN /\ UNCHANGED <<messages, usage>>
            /\ ua' = [ua EXCEPT !.last = "compact of empty"]
       ELSE /\ \E summary \in Summaries : messages' = CompactedMessages(summary)
            /\ usage' = Usage(0, 0)
            /\ ua' = [ua EXCEPT !.last = "compact"]
    /\ UNCHANGED <<pc, iteration, response, tc_i, turn_result, requests,
                   log, files, summarize_calls, varied, asm, stream, heap, registry, proc, obs>>

\* History.clear
LimitClear ==
    /\ messages' = <<>>
    /\ usage' = Usage(0, 0)
    /\ ua' = [ua EXCEPT !.last = "clear"]
    /\ UNCHANGED <<pc, iteration, response, tc_i, turn_result, requests,
                   log, files, summarize_calls, varied, asm, stream, heap, registry, proc, obs>>

NextLimit == LimitAppend \/ LimitRecord \/ LimitCompact \/ LimitClear

SpecLimit == InitLimit /\ [][NextLimit]_vars

-----------------------------------------------------------------------------
(* stream_completion, one delta at a time *)

\* Here stream is [n, before, delta]: the number of chunks delivered, the
\* accumulators as they were before the latest chunk, and the tool-call delta
\* that chunk carried (<<>> when it carried text).

\* the tool-call deltas a chunk may carry
TcDeltas ==
    { TcDelta(index, id, name, arguments) :
        index \in {0, 1}, id \in {"", "tc-1"}, name \in {"", "think", "write_file"},
        arguments \in {<<>>, <<"{">>} }

InitDelta ==
    /\ SessionInit
    /\ AtRest
    /\ ua = <<>>
    /\ asm = asmStart
    /\ stream = [n |-> 0, before |-> asmStart, delta |-> <<>>]

\* stream_completion, lines 177-196: a chunk whose delta carries one tool-call delta
TcDeltaArrives ==
    /\ stream.n < MaxDeltas
    /\ \E tc_delta \in TcDeltas :
        /\ asm' = ProcessChunk(asm, Chunk(<<>>, <<Delta(<<>>, <<tc_delta>>)>>))
        /\ stream' = [n |-> stream.n + 1, before |-> asm, delta |-> <<tc_delta>>]
    /\ UNCHANGED <<turnVars, ua, heap, registry, proc, obs>>

\* stream_completion, lines 177-183: a chunk whose delta carries text only
TextArrives ==
    /\ stream.n < MaxDeltas
    /\ asm' = ProcessChunk(asm, Chunk(<<>>, <<Delta(<<"h">>, <<>>)>>))
    /\ stream' = [n |-> stream.n + 1, before |-> asm, delta |-> <<>>]
    /\ UNCHANGED <<turnVars, ua, heap, registry, proc, obs>>

NextDelta == TcDeltaArrives \/ TextArrives

SpecDelta == InitDelta /\ [][NextDelta]_vars

-----------------------------------------------------------------------------
(* tools/execute_command.py: one call of execute_command *)

\* proc.at is the call's position: "spawn" (line 51), "communicate" (line 57),
\* "drain" (line 60), "returned".  proc.shell is the process asyncio started
\* (/bin/sh -c command) and proc.child the process of the command itself when
\* the shell forks one ("none" when the shell runs the command in its own
\* process); a forked child inherits the write end of the stdout pipe.
\* proc.waited records that the command ran to its natural end while the call
\* was draining the pipe after the timeout.

\* whether /bin/sh runs the command in its own process or in a child
CommandKinds == {"exec", "fork"}

\* the timeout argument, as str(timeout) shows it
Timeouts == {"0.2", "5", "30"}

ExitCodes == {0, 1}

Outputs == {"", "hello\n"}

TimedOutText(timeout) == "Error: command timed out after " \o timeout \o " seconds."

\* execute_command, lines 64-70
CompletedText(exit_code, output) ==
    IF exit_code # 0 THEN "Exit code " \o ToString(exit_code) \o ":\n" \o output
    ELSE IF output # "" THEN output
    ELSE "(no output)"

\* the read end of the pipe sees end-of-file once no process holds the write end
PipeOpen == proc.shell = "running" \/ proc.child = "running"

InitCommand ==
    /\ SessionInit
    /\ asm = asmIdle
    /\ stream = <<>>
    /\ ua = <<>>
    /\ heap = <<>>
    /\ registry = <<>>
    /\ \E kind \in CommandKinds, timeout \in Timeouts,
          exit_code \in ExitCodes, output \in Outputs :
        proc = [at |-> "spawn", kind |-> kind, timeout |-> timeout,
                exit_code |-> exit_code, output |-> output,
                shell |-> "none", child |-> "none", timer |-> "pending",
                waited |-> FALSE, result |-> ""]

\* execute_command, lines 58-60: TimeoutError; proc.kill() signals the shell
\* process only, then the call awaits proc.communicate() again
KillAndDrain(p) ==
    [p EXCEPT !.timer = "expired",
              !.shell = IF @ = "running" THEN "killed" ELSE @,
              !.at = "drain"]

\* execute_command, lines 51-55 and 72-74: create_subprocess_shell
Spawn ==
    /\ proc.at = "spawn"
    /\ \E started \in BOOLEAN :
        proc' = IF started
                THEN [proc EXCEPT !.at = "communicate",
                                  !.shell = "running",
                                  !.child = IF proc.kind = "fork" THEN "running"
                                            ELSE "none"]
                ELSE [proc EXCEPT !.at = "returned",
                                  !.result = "Error executing command"]
    /\ UNCHANGED <<turnVars, asm, stream, ua, heap, registry, obs>>

\* the command's own process ends by itself
ChildEnds ==
    /\ proc.child = "running"
    /\ proc' = [proc EXCEPT !.child = "exited",
                            !.waited = (proc.at = "drain")]
    /\ UNCHANGED <<turnVars, asm, stream, ua, heap, registry, obs>>

\* the shell ends by itself: when the command it runs, or waits for, has ended
ShellEnds ==
    /\ proc.shell = "running"
    /\ proc.child # "running"
    /\ proc' = [proc EXCEPT !.shell = "exited"]
    /\ UNCHANGED <<turnVars, asm, stream, ua, heap, registry, obs>>

\* execute_command, lines 57 and 64-70: communicate() returned within the timeout
CommunicateReturns ==
    /\ proc.at = "communicate"
    /\ ~PipeOpen
    /\ proc' = [proc EXCEPT !.at = "returned",
                            !.result = CompletedText(proc.exit_code, proc.output)]
    /\ UNCHANGED <<turnVars, asm, stream, ua, heap, registry, obs>>

\* execute_command, lines 57-60: the timeout expires before communicate() returns
TimeoutExpires ==
    /\ proc.at = "communicate"
    /\ PipeOpen
    /\ proc' = KillAndDrain(proc)
    /\ UNCHANGED <<turnVars, asm, stream, ua, heap, registry, obs>>

\* execute_command, lines 60-62: the second communicate() returns at end-of-file
DrainReturns ==
    /\ proc.at = "drain"
    /\ ~PipeOpen
    /\ proc' = [proc EXCEPT !.at = "returned",
                            !.result = TimedOutText(proc.timeout)]
    /\ UNCHANGED <<turnVars, asm, stream, ua, heap, registry, obs>>

NextCommand ==
    \/ Spawn
    \/ ChildEnds
    \/ ShellEnds
    \/ CommunicateReturns
    \/ TimeoutExpires
    \/ DrainReturns

SpecCommand == InitCommand /\ [][NextCommand]_vars

-----------------------------------------------------------------------------
(* tools/registry.py: registration and the registry's queries *)

\* registry.dict is TOOL_REGISTRY as a Python dict: key/value items with unique
\* keys in insertion order.  registry.calls is the register_tool calls made so
\* far, oldest first.

ToolDefinition(name, safety) == [name |-> name, safety |-> safety]

\* ToolEntry(definition=..., fn=...)
RegistryEntry(definition, fn) == [definition |-> definition, fn |-> fn]

Item(key, value) == [key |-> key, value |-> value]

\* the definitions and implementations tool modules may register
ToolDefinitions == {ToolDefinition(name, safety) :
                        name \in {"think", "read_file"},
                        safety \in {SAFE, REQUIRES_APPROVAL}}

ToolFns == {"fn1", "fn2"}

\* d[key] = value on a Python dict: a present key keeps its position
SetItem(d, key, value) ==
    IF \E i \in 1..Len(d) : d[i].key = key
    THEN [i \in 1..Len(d) |-> IF d[i].key = key THEN Item(key, value) ELSE d[i]]
    ELSE Append(d, Item(key, value))

\* a slip: a name that is already registered keeps its entry
register_tool_setdefault(d, definition, fn) ==
    IF \E i \in 1..Len(d) : d[i].key = definition.name
    THEN d
    ELSE Append(d, Item(definition.name, RegistryEntry(definition, fn)))

register_tool(d, definition, fn) ==
    SetItem(d, definition.name, RegistryEntry(definition, fn))

\* TOOL_REGISTRY.get(name)
registry_get(d, name) ==
    IF \E i \in 1..Len(d) : d[i].key = name
    THEN d[CHOOSE i \in 1..Len(d) : d[i].key = name].value
    ELSE None

get_tool_definitions(d) == [i \in 1..Len(d) |-> d[i].value.definition]

get_safe_tool_names(d) ==
    {d[i].key : i \in {j \in 1..Len(d) : d[j].value.definition.safety = SAFE}}

InitRegistry ==
    /\ SessionInit
    /\ asm = asmIdle
    /\ stream = <<>>
    /\ ua = <<>>
    /\ heap = <<>>
    /\ proc = <<>>
    /\ registry = [dict |-> <<>>, calls |-> <<>>]

RegisterTool(definition, fn) ==
    /\ Len(registry.calls) < MaxRegistrations
    /\ registry' = [dict |-> register_tool(registry.dict, definition, fn),
                    calls |-> Append(registry.calls, RegistryEntry(definition, fn))]
    /\ UNCHANGED <<turnVars, asm, stream, ua, heap, proc, obs>>

NextRegistry == \E definition \in ToolDefinitions, fn \in ToolFns :
                    RegisterTool(definition, fn)

SpecRegistry == InitRegistry /\ [][NextRegistry]_vars

-----------------------------------------------------------------------------
(* Properties of the assembled tool calls and usage *)

\* the slot indexes for which a delta has arrived
SlotsSeen == Range(stream.arrived)

\* the ids the provider sends for a slot
SlotId(index) == IF index = 0 THEN "tc-1" ELSE "tc-2"

\* C18: the assembled message lists exactly one tool call per slot index seen
\* in the stream, in ascending index order, whatever order the slots' deltas
\* arrived in, and also for a slot that received no id, name or argument text.
C18_SlotOrder ==
    asm.outcome = "returned" =>
        /\ Len(asm.message.tool_calls) = Cardinality(SlotsSeen)
        /\ \A index \in SlotsSeen :
              LET rank == Cardinality({j \in SlotsSeen : j <= index})
                  call == asm.message.tool_calls[rank]
              IN  /\ call.id \in {"", SlotId(index)}
                  /\ ArgsDelivered(index) = <<>> => call.arguments = JDict(<<>>)
                  /\ ArgsDelivered(index) = <<"{", "}">> => call.arguments = JDict(<<>>)
                  /\ ArgsDelivered(index) = <<"1", "1">> => call.arguments = JNum("11")

\* C18 witness: slot 1 arrived before slot 0, slot 0 received neither id nor
\* name nor argument text, and the message lists slot 0 first
C18_Witness ==
    /\ asm.outcome = "returned"
    /\ stream.arrived = <<1, 0>>
    /\ Len(asm.message.tool_calls) = 2
    /\ asm.message.tool_calls[1] = ToolCall("", "", JDict(<<>>))
    /\ asm.message.tool_calls[2].id = "tc-2"
    /\ asm.message.tool_calls[2].name = "think"

\* C19: the Usage stream_completion returns is that of the most recently
\* received usage report, wherever the reports occurred and whether or not the
\* reporting chunk carried deltas, and (0, 0) when no report arrived.
C19_LatestUsageReport ==
    asm.outcome = "returned" =>
        asm.usage = IF stream.reported = <<>> THEN Usage(0, 0)
                    ELSE Usage(stream.reported[1].prompt_tokens,
                               stream.reported[1].completion_tokens)

\* C19 witness: the last report said (10, 5) and text and tool-call deltas
\* arrived as well
C19_Witness ==
    /\ asm.outcome = "returned"
    /\ stream.reported = <<[prompt_tokens |-> 10, completion_tokens |-> 5]>>
    /\ asm.usage = Usage(10, 5)
    /\ stream.tsent = 2
    /\ SlotsSeen = {0, 1}

-----------------------------------------------------------------------------
(* Properties of the registry *)

\* the positions of the register_tool calls made under a name
CallsUnder(name) ==
    {i \in 1..Len(registry.calls) : registry.calls[i].definition.name = name}

\* the most recent register_tool call made under a name
LatestCall(name) ==
    registry.calls[CHOOSE i \in CallsUnder(name) : \A j \in CallsUnder(name) : j <= i]

RegisteredNames == {registry.calls[i].definition.name : i \in 1..Len(registry.calls)}

\* C20: after any sequence of register_tool calls a lookup returns the
\* definition and implementation of the most recent registration under the
\* name, get_tool_definitions holds exactly one definition per registered
\* name, and get_safe_tool_names is the set of registered names whose current
\* safety is SAFE.
C20_LatestRegistrationWins ==
    LET defs == get_tool_definitions(registry.dict)
    IN  /\ \A name \in RegisteredNames :
              /\ registry_get(registry.dict, name) = LatestCall(name)
              /\ Cardinality({i \in 1..Len(defs) : defs[i].name = name}) = 1
        /\ \A name \in {"think", "read_file"} \ RegisteredNames :
              registry_get(registry.dict, name) = None
        /\ {defs[i].name : i \in 1..Len(defs)} = RegisteredNames
        /\ Len(defs) = Cardinality(RegisteredNames)
        /\ \A i \in 1..Len(defs) : defs[i] = LatestCall(defs[i].name).definition
        /\ get_safe_tool_names(registry.dict) =
              {name \in RegisteredNames : LatestCall(name).definition.safety = SAFE}

\* C20 witness: "think" was registered as SAFE, then "read_file", then "think"
\* again with another safety and implementation
C20_Witness ==
    /\ registry.calls = << RegistryEntry(ToolDefinition("think", SAFE), "fn1"),
                           RegistryEntry(ToolDefinition("read_file", SAFE), "fn1"),
                           RegistryEntry(ToolDefinition("think", REQUIRES_APPROVAL), "fn2") >>
    /\ registry_get(registry.dict, "think") =
            RegistryEntry(ToolDefinition("think", REQUIRES_APPROVAL), "fn2")
    /\ Len(get_tool_definitions(registry.dict)) = 2
    /\ get_safe_tool_names(registry.dict) = {"read_file"}

-----------------------------------------------------------------------------
(* Properties of the session driver *)

QuitLines == { <<"/", "q", "u", "i", "t">>, <<"/", "Q", "u", "i", "t">>,
               <<Space, "q", "u", "i", "t">> }

CompactLines == { <<"/", "c", "o", "m", "p", "a", "c", "t">>,
                  <<"/", "C", "o", "m", "p", "a", "c", "t", Space>> }

BlankLines == { <<>>, <<Space>> }

\* C21: of the lines read at the prompt, a quit command in any letter case ends
\* the session and starts no turn; a compact command in any letter case calls
\* History.compact, starts no turn and appends no USER message; an empty or
\* blank line changes nothing; every other line starts one turn, which appends
\* one USER message; and end-of-input or an interrupt at the prompt ends the
\* session.
C21_LineDispatch ==
    [][ /\ \A line \in UserLines :
            (pc = "read" /\ Dispatch(line)) =>
                CASE line \in BlankLines -> UNCHANGED turnVars
                  [] line \in QuitLines ->
                        /\ pc' = "exit"
                        /\ UNCHANGED <<messages, usage, requests, summarize_calls>>
                  [] line \in CompactLines ->
                        /\ UNCHANGED <<requests, iteration>>
                        /\ IF messages = <<>>
                           THEN pc' = "read" /\ summarize_calls' = 0
                           ELSE pc' = "compact" /\ summarize_calls' = 1
                        /\ UNCHANGED <<messages, usage>>
                  [] OTHER ->
                        /\ pc' = "reason"
                        /\ requests' = 1
                        /\ messages' = Append(messages, Message(USER, "hi", None, <<>>))
                        /\ usage' = usage
        /\ (pc = "read" /\ ReadEnd) => (pc' = "exit" /\ messages' = messages)
      ]_vars

\* C21 witness: a line started a turn, a compact command then compacted its
\* history without starting another, and the session has ended
C21_Witness ==
    /\ pc = "exit"
    /\ turn_result = "Compacted"
    /\ summarize_calls = 1
    /\ requests = 1
    /\ Len(messages) = 1
    /\ IsSummaryMessage(messages[1])


\* C22 as stated: when a turn fails with a provider or other error, the session
\* driver reports it and the session continues: the step in which run_turn
\* raises takes the session back to reading the next user line, with the
\* history as the turn left it.
C22_SessionContinues ==
    [][ (InFlight /\ turn_result' \in {"ProviderError", "ExecutorError"}) =>
            /\ pc' = "read"
            /\ messages' = messages
      ]_vars


\* a provider call or an execute call of the turn did not return: it raised,
\* or an interrupt ended the wait
CallDidNotReturn == turn_result \in {"ProviderError", "ExecutorError", "Interrupted"}

\* run_turn has returned normally
TurnReturned == pc \in {"read", "exit"} /\ turn_result \in {"DONE", "ABORTED"}

\* C23: provided every provider call and every tool execution returns, every
\* turn eventually ends by run_turn returning normally, in DONE when its last
\* response has no tool calls and in ABORTED after 20 responses that all have
\* tool calls; an ABORTED turn leaves everything it accumulated in the history,
\* and a further turn on that history starts as any turn does.
C23_TurnTerminates ==
    /\ InFlight ~> (TurnReturned \/ CallDidNotReturn)
    /\ []( (TurnReturned /\ turn_result = "DONE" /\ LastUser > 0) =>
                messages[Len(messages)].tool_calls = <<>>
                /\ messages[Len(messages)].role = ASSISTANT )
    /\ []( (TurnReturned /\ turn_result = "ABORTED") =>
                /\ requests = _MAX_ITERATIONS
                /\ Len(TurnResponses) = _MAX_ITERATIONS
                /\ Len(ResponsesWithCalls) = _MAX_ITERATIONS
                /\ messages[LastUser].role = USER
                /\ messages[Len(messages)].role = TOOL )
    /\ [][ (turn_result = "ABORTED" /\ pc = "read" /\ pc' = "reason") =>
                /\ Len(messages') = Len(messages) + 1
                /\ SubSeq(messages', 1, Len(messages)) = messages
                /\ messages'[Len(messages')].role = USER
                /\ requests' = 1
                /\ usage' = usage
         ]_vars

\* C23 witness: a first turn was aborted at the cap, and the next turn on the
\* same history, after a tool iteration of its own, is done
C23_Witness ==
    /\ TurnReturned
    /\ turn_result = "DONE"
    /\ LastUser = 2 * _MAX_ITERATIONS + 2
    /\ Len(messages) = LastUser + 3
    /\ messages[LastUser - 1].role = TOOL
    /\ usage = Usage(20 * _MAX_ITERATIONS + 30, 10 * _MAX_ITERATIONS + 15)

-----------------------------------------------------------------------------
(* Properties of execute_command *)

\* C24 as stated: when the timeout expires before the subprocess finishes, the
\* subprocess is forcibly terminated before the call returns, and the call
\* returns a text with a timeout indication without waiting for the command's
\* natural end.
C24_TimeoutKills ==
    (proc.at = "returned" /\ proc.timer = "expired") =>
        /\ proc.result = TimedOutText(proc.timeout)
        /\ proc.shell = "killed"
        /\ ~proc.waited

-----------------------------------------------------------------------------
(* Further properties of the assembler *)

\* C25 as stated: every tool call of the assembled message has arguments that
\* are a key-value mapping; argument text that is empty, malformed, or well
\* formed but not an object yields the empty mapping.
C25_ArgumentsAreMappings ==
    asm.outcome = "returned" =>
        \A i \in 1..Len(asm.message.tool_calls) :
            IsMapping(asm.message.tool_calls[i].arguments)


\* the slot a delta meets: the one accumulated so far, or a fresh one
SlotBefore(index) ==
    IF index \in DOMAIN stream.before.tool_calls_acc
    THEN stream.before.tool_calls_acc[index]
    ELSE [id |-> "", name |-> "", args |-> <<>>]

\* C26: a tool-call delta changes only the slot its index names: a present id
\* replaces the slot's id, a present name replaces its name (it is not
\* appended), a present arguments fragment is appended to its argument text,
\* an absent field leaves the slot's field as it was, and the other slots and
\* the text buffer stay as they were.
C26_DeltaFrame ==
    stream.delta # <<>> =>
        LET d == stream.delta[1]
            slot == asm.tool_calls_acc[d.index]
        IN  /\ d.index \in DOMAIN asm.tool_calls_acc
            /\ slot.id = (IF d.id # "" THEN d.id ELSE SlotBefore(d.index).id)
            /\ slot.name = (IF d.name # "" THEN d.name ELSE SlotBefore(d.index).name)
            /\ slot.args = SlotBefore(d.index).args \o d.arguments
            /\ DOMAIN asm.tool_calls_acc =
                    DOMAIN stream.before.tool_calls_acc \cup {d.index}
            /\ \A other \in DOMAIN asm.tool_calls_acc \ {d.index} :
                    asm.tool_calls_acc[other] = stream.before.tool_calls_acc[other]
            /\ asm.text_parts = stream.before.text_parts
            /\ asm.usage = stream.before.usage

\* C26 witness: slot 0 held an id, a name and argument text, and slot 1 a name,
\* when a delta for slot 0 brought another name and no id or arguments
C26_Witness ==
    /\ stream.delta = <<TcDelta(0, "", "write_file", <<>>)>>
    /\ DOMAIN stream.before.tool_calls_acc = {0, 1}
    /\ stream.before.tool_calls_acc[0] = [id |-> "tc-1", name |-> "think", args |-> <<"{">>]
    /\ stream.before.tool_calls_acc[1] = [id |-> "", name |-> "think", args |-> <<>>]
    /\ asm.tool_calls_acc[0] = [id |-> "tc-1", name |-> "write_file", args |-> <<"{">>]
    /\ asm.tool_calls_acc[1] = stream.before.tool_calls_acc[1]

-----------------------------------------------------------------------------
(* Further properties of the history *)

\* C27: History.compact is atomic.  When the summarizer fails, the message log
\* and the cumulative usage are what they were before the call; when it
\* succeeds the log is replaced and the usage reset in the same step, so that no
\* state has the log replaced and the usage not reset; and the summarizer is
\* handed the full current message list.
C27_CompactAtomic ==
    /\ [][ /\ (pc = "read" /\ pc' = "compact") =>
                /\ log' = <<EvSummarize(messages)>>
                /\ messages' = messages /\ usage' = usage
           /\ (pc = "compact" /\ turn_result' = "CompactFailed") =>
                /\ messages' = messages /\ usage' = usage
                /\ log = <<EvSummarize(messages)>>
           /\ (pc = "compact" /\ turn_result' # "CompactFailed") =>
                /\ Len(messages') = 1 /\ IsSummaryMessage(messages'[1])
                /\ usage' = Usage(0, 0)
         ]_vars
    /\ [](pc = "compact" => log = <<EvSummarize(messages)>>)
    /\ []((Len(messages) = 1 /\ IsSummaryMessage(messages[1])) => usage = Usage(0, 0))

\* C27 witness: the summarizer failed on a history of a whole turn, and the
\* turn's messages and usage are still there
C27_Witness ==
    /\ pc = "read"
    /\ turn_result = "CompactFailed"
    /\ Len(messages) = 2 * _MAX_ITERATIONS + 1
    /\ usage = Usage(20 * _MAX_ITERATIONS, 10 * _MAX_ITERATIONS)
    /\ log = <<EvSummarize(messages)>>


\* the History is fresh, or was just compacted from a non-empty log, or cleared
JustReset == ua.last \in {"init", "compact", "clear"}

\* C28 as stated: is_over_limit is true exactly when input plus output tokens
\* exceed max_history_tokens (equal to it is not over), and it is false on a
\* fresh History, right after compact on a non-empty history and after clear.
C28_OverLimit ==
    /\ is_over_limit(usage, ua.max_history_tokens)
            <=> (usage.input_tokens + usage.output_tokens > ua.max_history_tokens)
    /\ JustReset => ~is_over_limit(usage, ua.max_history_tokens)

\* C28 amended: is_over_limit is true exactly when input plus output tokens
\* exceed max_history_tokens; on a fresh, just compacted or cleared History it
\* is false when max_history_tokens is zero or more, and true when it is negative.
C28_OverLimitNonNegative ==
    /\ is_over_limit(usage, ua.max_history_tokens)
            <=> (usage.input_tokens + usage.output_tokens > ua.max_history_tokens)
    /\ JustReset => (is_over_limit(usage, ua.max_history_tokens)
                        <=> ua.max_history_tokens < 0)

\* C28 witness: the recorded tokens add up to the ceiling exactly, which is not
\* over the limit
C28_Witness ==
    /\ ua.last = "record_usage"
    /\ ua.max_history_tokens = MaxCeiling
    /\ usage.input_tokens > 0 /\ usage.output_tokens > 0
    /\ total(usage) = ua.max_history_tokens
    /\ ~is_over_limit(usage, ua.max_history_tokens)


\* the ACT phase of the latest response is under way, at call tc_i
InAct == pc \in {"act", "approval", "tool"}

\* the events of execute() for a call: its start, its prompt, its implementation
StartsOf(ev) == ev.e \in {"execute", "prompt", "invoke"}

WroteF(ev) ==
    /\ ev.e = "result"
    /\ ev.call.name = "write_file"
    /\ ev.result.output = "Successfully wrote to f"

ReadF(ev) ==
    /\ ev.e = "result"
    /\ ev.call.name = "read_file"
    /\ IsMapping(ev.call.arguments)
    /\ Keys(ev.call.arguments) = {"path"}
    /\ Get(ev.call.arguments, "path") = JStr("f")

\* C29: within one ACT phase the calls run one at a time: while call i is being
\* executed, exactly the calls before it have returned and their TOOL messages,
\* in order, follow the response in History; nothing of a later call (execute,
\* prompt, implementation) happens before every earlier call has its result;
\* and a file written by call i is found by a later call that reads it.
C29_OneAtATime ==
    /\ InAct =>
        LET n == Len(messages)
            k == tc_i - 1
        IN  /\ tc_i \in 1..Len(response.tool_calls)
            /\ n > k
            /\ messages[n - k] = response
            /\ \A j \in 1..k :
                /\ messages[n - k + j].role = TOOL
                /\ messages[n - k + j].tool_call_id = response.tool_calls[j].id
            /\ Len(EventsOf("result")) = k
            /\ \A j \in 1..k :
                /\ EventsOf("result")[j].call = response.tool_calls[j]
                /\ EventsOf("result")[j].result.output = messages[n - k + j].content
            /\ Len(EventsOf("execute")) = IF pc = "act" THEN k ELSE k + 1
            /\ Len(EventsOf("prompt")) + Len(EventsOf("invoke")) <= 2 * k + 1
    /\ (InAct \/ pc = "reason") =>
        \A p, q \in 1..Len(log) :
            /\ (p < q /\ StartsOf(log[q]) /\ log[p].call # log[q].call)
                => \E r \in 1..(q - 1) : log[r].e = "result" /\ log[r].call = log[p].call
            /\ (p < q /\ WroteF(log[p]) /\ ReadF(log[q]))
                => log[q].result.output # "Error: file not found: f"

\* C29 witness: write_file then read_file in one response; the second call ran
\* after the first returned and read the file the first one wrote
C29_Witness ==
    /\ pc = "reason"
    /\ Len(log) = 8
    /\ log[2].e = "prompt"
    /\ WroteF(log[5])
    /\ log[6].e = "execute"
    /\ ReadF(log[8])
    /\ log[8].result.output = "content of f"
    /\ messages[Len(messages) - 1].role = TOOL
    /\ messages[Len(messages)].content = "content of f"


\* a compaction is in flight, suspended on the summarizer
Compacting == pc = "compact"

UserMessages(msgs) == SelectSeq(msgs, LAMBDA m : m.role = USER)

\* C30: History has a single writer. While a turn is in flight (suspended on a
\* completion stream, an approval answer or a tool) no user line is taken: no
\* USER message is appended, no other turn is started and no compaction is
\* begun, and History changes only by that turn's own appends. While a
\* compaction is in flight no turn is started and no second compaction is
\* begun, and History changes only by that compaction's replacement of the log.
C30_SingleWriter ==
    [][ /\ InFlight =>
            /\ pc' \in {"reason", "act", "approval", "tool", "read", "exit"}
            /\ UserMessages(messages') = UserMessages(messages)
            /\ summarize_calls' = summarize_calls
            /\ iteration' \in {iteration, iteration + 1}
            /\ requests' = requests + (iteration' - iteration)
            /\ \/ messages' = messages /\ usage' = usage
               \/ /\ pc = "reason"
                  /\ Len(messages') = Len(messages) + 1
                  /\ SubSeq(messages', 1, Len(messages)) = messages
                  /\ messages'[Len(messages')].role = ASSISTANT
               \/ /\ pc \in {"act", "approval", "tool"}
                  /\ Len(messages') = Len(messages) + 1
                  /\ SubSeq(messages', 1, Len(messages)) = messages
                  /\ messages'[Len(messages')].role = TOOL
                  /\ usage' = usage
        /\ Compacting =>
            /\ pc' \in {"read", "exit"}
            /\ summarize_calls' = summarize_calls
            /\ requests' = requests /\ iteration' = iteration
            /\ \/ messages' = messages /\ usage' = usage
               \/ /\ Len(messages') = 1
                  /\ IsSummaryMessage(messages'[1])
                  /\ usage' = Usage(0, 0)
        /\ (pc # pc' /\ (pc' = "compact" \/ (pc' = "reason" /\ iteration' = 0)))
            => pc = "read"
      ]_vars

\* C30 witness: after a compaction has replaced the log, a turn is suspended on
\* an approval answer with its USER message and one response in History
C30_Witness ==
    /\ pc = "approval"
    /\ Len(messages) = 3
    /\ IsSummaryMessage(messages[1])
    /\ messages[2].role = USER
    /\ messages[3] = response
    /\ Len(UserMessages(messages)) = 1


\* a completion request is issued in this step
RequestIssued == pc' = "reason" /\ (pc # "reason" \/ requests' # requests)

\* the TOOL messages run_turn appended for the calls of the latest response
ToolMessagesOf(msgs) ==
    SubSeq(msgs, Len(msgs) - Len(response.tool_calls) + 1, Len(msgs))

\* C31: every completion request of a turn receives the full History log as it
\* stands at the moment of the request: the first request of a turn gets all
\* messages of earlier turns followed by the new USER message, each later one
\* gets what the request before it got, followed by the response to that
\* request and the TOOL messages of its calls, in order; and while a request is
\* awaited, what it was given is the whole log.
C31_RequestCarriesFullLog ==
    /\ [](pc = "reason" => obs.request = messages)
    /\ [][ RequestIssued =>
            /\ obs'.request = messages'
            /\ IF pc = "read"
               THEN /\ Len(obs'.request) = Len(messages) + 1
                    /\ SubSeq(obs'.request, 1, Len(messages)) = messages
                    /\ obs'.request[Len(obs'.request)].role = USER
               ELSE /\ obs'.request
                        = obs.request \o <<response>> \o ToolMessagesOf(messages')
                    /\ \A i \in 1..Len(response.tool_calls) :
                        ToolMessagesOf(messages')[i].role = TOOL
          ]_vars

\* C31 witness: the second request of a session's second turn is awaited; it was
\* given the two messages of the first turn, the USER message, the response with
\* one call and its TOOL message
C31_Witness ==
    /\ pc = "reason"
    /\ requests = 2
    /\ Len(obs.request) = 5
    /\ obs.request[1].role = USER /\ obs.request[2].role = ASSISTANT
    /\ obs.request[3].role = USER
    /\ obs.request[4] = response
    /\ obs.request[5].role = TOOL
    /\ obs.request = messages


RECURSIVE SumOfUsages(_)
\* the pairwise sum of a sequence of usages
SumOfUsages(us) ==
    IF us = <<>> THEN Usage(0, 0)
    ELSE LET rest == SumOfUsages(Tail(us))
         IN  Usage(Head(us).input_tokens + rest.input_tokens,
                   Head(us).output_tokens + rest.output_tokens)

\* a turn is under way, or it is over and nothing was done since
TurnInView == InFlight \/ TurnOver

\* C32: usage is recorded exactly once per completion that returns: during a
\* turn and after it, History's usage is its usage at the start of the turn plus
\* the pairwise sum of the usages the turn's completions returned, and between
\* iterations the number of usages recorded in the turn equals the number of
\* ASSISTANT messages appended in the turn.
C32_UsageOncePerCompletion ==
    TurnInView =>
        /\ usage.input_tokens
            = obs.usage0.input_tokens + SumOfUsages(obs.returned).input_tokens
        /\ usage.output_tokens
            = obs.usage0.output_tokens + SumOfUsages(obs.returned).output_tokens
        /\ Len(obs.returned) = Len(TurnResponses)

\* C32 witness: a turn that began with usage already recorded has ended after two
\* completions with different usages
C32_Witness ==
    /\ TurnOver
    /\ turn_result = "DONE"
    /\ total(obs.usage0) > 0
    /\ Len(obs.returned) = 2
    /\ obs.returned[1] # obs.returned[2]
    /\ usage = Usage(obs.usage0.input_tokens + obs.returned[1].input_tokens
                        + obs.returned[2].input_tokens,
                     obs.usage0.output_tokens + obs.returned[1].output_tokens
                        + obs.returned[2].output_tokens)


\* the result of a call that reached _run_tool: the tool is registered, and
\* approval, where needed, was given
ResultsOfRun ==
    SelectSeq(log, LAMBDA ev : /\ ev.e = "result"
                               /\ ~UnknownTool(ev.call.name)
                               /\ ev.result # DeniedResult(ev.call))

RECURSIVE Grouped(_)
\* msgs is a sequence of groups: an ASSISTANT message, then as many TOOL
\* messages as it has tool calls
Grouped(msgs) ==
    IF msgs = <<>> THEN TRUE
    ELSE LET k == Len(Head(msgs).tool_calls)
         IN  /\ Head(msgs).role = ASSISTANT
             /\ Len(msgs) >= 1 + k
             /\ \A j \in 2..(k + 1) : msgs[j].role = TOOL
             /\ Grouped(SubSeq(msgs, k + 2, Len(msgs)))

RECURSIVE CallsIn(_)
\* the number of tool calls in the ASSISTANT messages of msgs
CallsIn(msgs) ==
    IF msgs = <<>> THEN 0 ELSE Len(Head(msgs).tool_calls) + CallsIn(Tail(msgs))

\* run_turn returned normally
ReturnedNormally == TurnOver /\ turn_result \in {"DONE", "ABORTED"}

\* the ACT phase of the latest response ends in this step with all results in
ActPhaseDone == InAct /\ (pc' = "reason" \/ turn_result' = "ABORTED")

\* C34: whenever run_turn has returned normally, the messages it appended are
\* the USER message and then one or more groups of one ASSISTANT message and as
\* many TOOL messages as it has tool calls; for n completions History grew by
\* 1 + n + (number of tool calls) messages; and in each ACT phase execute was
\* called once for each tool call of the response, in order.
C34_TurnShape ==
    /\ [](ReturnedNormally =>
            /\ TurnLog[1].role = USER
            /\ Len(TurnLog) >= 2
            /\ Grouped(Tail(TurnLog))
            /\ Len(TurnResponses) = Len(obs.returned)
            /\ Len(messages) - (LastUser - 1)
                = 1 + Len(obs.returned) + CallsIn(TurnResponses))
    /\ [][ ActPhaseDone =>
            LET executes == SelectSeq(log', LAMBDA ev : ev.e = "execute")
            IN  /\ Len(executes) = Len(response.tool_calls)
                /\ \A i \in 1..Len(executes) : executes[i].call = response.tool_calls[i]
          ]_vars

\* C34 witness: a turn returned DONE after three completions; the first response
\* had two tool calls, the second one, the third none: 1 + 3 + 3 messages
C34_Witness ==
    /\ ReturnedNormally
    /\ turn_result = "DONE"
    /\ Len(TurnResponses) = 3
    /\ Len(TurnResponses[1].tool_calls) = 2
    /\ Len(TurnResponses[2].tool_calls) = 1
    /\ Len(TurnLog) = 7
    /\ Grouped(Tail(TurnLog))


\* the tool calls of the ASSISTANT message at index i are answered, in order,
\* by the TOOL messages that follow it
Answered(i) ==
    \A j \in 1..Len(messages[i].tool_calls) :
        /\ i + j <= Len(messages)
        /\ messages[i + j].role = TOOL
        /\ messages[i + j].tool_call_id = messages[i].tool_calls[j].id

\* C35 as stated: whenever the session is waiting for the next user line,
\* however the previous turn ended, every tool call of every ASSISTANT message
\* in History is answered by a TOOL message carrying its id.
C35_CallsAnsweredAtBoundary ==
    pc = "read" =>
        \A i \in 1..Len(messages) : messages[i].role = ASSISTANT => Answered(i)


\* the latest turn ended by the iteration cap
Aborted == TurnOver /\ turn_result = "ABORTED"

\* C36: when a turn has ended ABORTED, the tool calls of the 20th response have
\* all been executed, with approval prompts for the calls that need one and the
\* file of a successful write in place, and their TOOL messages are the last
\* messages of History; the turn's last request was given the log up to the
\* message before the 20th response, so no request of the turn has seen them.
C36_AbortedAfterLastAct ==
    Aborted =>
        LET k == Len(response.tool_calls)
            n == Len(messages)
            executes == EventsOf("execute")
            results == EventsOf("result")
        IN  /\ requests = _MAX_ITERATIONS
            /\ Len(TurnResponses) = _MAX_ITERATIONS
            /\ TurnResponses[_MAX_ITERATIONS] = response
            /\ k >= 1
            /\ messages[n - k] = response
            /\ messages[n].role = TOOL
            /\ Len(executes) = k /\ Len(results) = k
            /\ \A j \in 1..k :
                /\ messages[n - k + j].role = TOOL
                /\ messages[n - k + j].tool_call_id = response.tool_calls[j].id
                /\ messages[n - k + j].content = results[j].result.output
                /\ executes[j].call = response.tool_calls[j]
                /\ (~UnknownTool(response.tool_calls[j].name)
                        /\ NeedsApproval(response.tool_calls[j]))
                    => \E p \in 1..Len(log) : log[p] = EvPrompt(response.tool_calls[j])
            /\ (\E p \in 1..Len(log) : WroteF(log[p])) => "f" \in files
            /\ obs.request = SubSeq(messages, 1, n - k - 1)

\* C36 witness: the 20th response asked for write_file, the user approved, the
\* file was written, and the turn ended ABORTED with that result last in History
C36_Witness ==
    /\ Aborted
    /\ response.tool_calls[1].name = "write_file"
    /\ Len(EventsOf("prompt")) = 1
    /\ WroteF(log[Len(log)])
    /\ "f" \in files
    /\ messages[Len(messages)].content = "Successfully wrote to f"
    /\ Len(obs.request) = Len(messages) - 2


\* the call is to a registered tool whose safety is REQUIRES_APPROVAL
Gated(tool_call) == ~UnknownTool(tool_call.name) /\ NeedsApproval(tool_call)

\* C37 as stated: every execution of a REQUIRES_APPROVAL tool shows exactly one
\* approval prompt, and its implementation runs only if that prompt was
\* answered affirmatively, whatever was answered to earlier calls.
C37_ApprovalEachTime ==
    \A p \in 1..Len(log) :
        /\ (log[p].e = "execute" /\ Gated(log[p].call)) =>
            /\ p < Len(log)
            /\ log[p + 1] = EvPrompt(log[p].call)
            /\ Len(SelectSeq(log, LAMBDA ev : ev = EvPrompt(log[p].call))) = 1
        /\ (log[p].e = "invoke" /\ Gated(log[p].call)) =>
            /\ p > 1
            /\ log[p - 1].e = "answer"
            /\ log[p - 1].call = log[p].call
            /\ Approved(log[p - 1].answer)


\* the console reads that are blocked: the read of the next user line
\* (repl.py:52), the read of an approval answer (executor.py:71), and the
\* approval reads left behind by turns that were interrupted
PendingReads ==
    (IF pc = "read" THEN 1 ELSE 0) + (IF pc = "approval" THEN 1 ELSE 0) + obs.orphans

UserAppended ==
    /\ Len(messages') = Len(messages) + 1
    /\ messages'[Len(messages')].role = USER

\* C39 as stated: History never holds two consecutive USER messages: every USER
\* message other than the last message of the log is immediately followed by
\* an ASSISTANT message.
C39_NoConsecutiveUsers ==
    \A i \in 1..(Len(messages) - 1) :
        messages[i].role = USER => messages[i + 1].role = ASSISTANT

\* C39 amended: every USER message other than the last message of the log is
\* immediately followed by an ASSISTANT message or by the USER message of the
\* next turn, and a USER message is appended right after a USER message only
\* when the turn of the earlier one ended before any completion returned (its
\* first request failed or was interrupted), which left the log as that turn's
\* first request got it.
C39_UsersFollowed ==
    /\ [](\A i \in 1..(Len(messages) - 1) :
            messages[i].role = USER => messages[i + 1].role \in {ASSISTANT, USER})
    /\ [][ (UserAppended /\ messages # <<>> /\ messages[Len(messages)].role = USER)
            => /\ obs.returned = <<>>
               /\ obs.request = messages
               /\ turn_result \in {"ProviderError", "Interrupted", "CompactFailed"}
          ]_vars

\* C39 witness: the first turn's only request failed, and the next turn has
\* appended its USER message right after the first one
C39_Witness ==
    /\ pc = "reason"
    /\ Len(messages) = 2
    /\ messages[1].role = USER
    /\ messages[2].role = USER
    /\ usage = Usage(0, 0)
    /\ requests = 1


\* msgs' keeps every message of msgs, in place
Extends(longer, shorter) ==
    /\ Len(longer) >= Len(shorter)
    /\ SubSeq(longer, 1, Len(shorter)) = shorter

\* C40: the token ceiling is soft.  When a user line starts a turn, the warning
\* is printed exactly if History's total usage exceeds max_history_tokens, and
\* in either case the turn runs on the whole History: the USER message is
\* appended to the unchanged log and the usage is kept.  Messages are removed
\* from History, and its usage is lowered, only by the step in which the
\* summarizer called for a compact command returns its summary.
C40_SoftCeiling ==
    [][ /\ (pc = "read" /\ pc' = "reason") =>
            /\ obs'.warned = (usage.input_tokens + usage.output_tokens
                                > obs.max_history_tokens)
            /\ Len(messages') = Len(messages) + 1
            /\ Extends(messages', messages)
            /\ messages'[Len(messages')].role = USER
            /\ usage' = usage
            /\ obs'.request = messages'
        /\ (~Extends(messages', messages) \/ total(usage') < total(usage)) =>
            /\ pc = "compact"
            /\ summarize_calls = 1
            /\ log = <<EvSummarize(messages)>>
            /\ turn_result' = "Compacted"
            /\ Len(messages') = 1 /\ IsSummaryMessage(messages'[1])
      ]_vars

\* C40 witness: with max_history_tokens 0 a second turn was started over the
\* limit: the warning was printed, the first turn's messages are all there, and
\* the turn's first completion has returned
C40_Witness ==
    /\ obs.max_history_tokens = 0
    /\ obs.warned
    /\ total(obs.usage0) > obs.max_history_tokens
    /\ Len(obs.returned) = 1
    /\ Len(messages) >= 4
    /\ messages[1].role = USER /\ messages[2].role = ASSISTANT
    /\ messages[3].role = USER /\ messages[4].role = ASSISTANT
    /\ total(usage) > total(obs.usage0)

====
